---- MODULE Spec2Model ----
(***************************************************************************)
(* State-machine model of three GPUMD components:                          *)
(*   - VAC             velocity autocorrelation ring buffer (vac.cu)       *)
(*   - MODAL_ANALYSIS  GKMA / HNEMA modal heat current (modal_analysis.cu) *)
(*   - SW2             Stillinger-Weber partial forces (sw.cu)             *)
(* Each component has its own specification (SpecVAC, SpecMA, SpecBin,     *)
(* SpecSW, SpecCapacity, SpecConstruct; SpecGate runs the per-step hooks   *)
(* of VAC and MODAL_ANALYSIS together); the variables of the other         *)
(* components stay at their initial values.  Floating-point quantities are *)
(* modelled on an integer grid or as exact fractions.                      *)
(***************************************************************************)
EXTENDS Integers, Sequences, FiniteSets, TLC

VARIABLES
    vacObj,     \* the VAC object: public settings and private members
    vacPhase,   \* "config" | "running" | "error"
    vacStep,    \* the step the driver passes to the next VAC::process call
    vacLog,     \* observation of the last sampling call of VAC::process
    vacOut,     \* arrays and output files of VAC::postprocess
    ma,         \* the MODAL_ANALYSIS object
    maPhase,    \* "config" | "running" | "error"
    maStep,     \* the step the driver passes to the next process call
    maFile,     \* lines appended to heatmode.out / kappamode.out
    maLog,      \* observation of the MODAL_ANALYSIS calls
    atom,       \* Atom state read by SW2::compute: x/y/z, NN_local, NL_local
    sw2,        \* the SW2 object: N1, N2 and the capacity of its buffers
    f12,        \* sw2_data.f12x / f12y / f12z, one triple per buffer index
    pe,         \* atom->potential_per_atom
    swPc,       \* position inside SW2::compute
    swLog,      \* observation of the SW2::compute calls
    cap,        \* buffer indices written by the SW2 kernels, against the
                \* size SW2::SW2 allocated
    swCtor,      \* SW2::SW2: the parameter file, the reads made, the tables
    red,      \* one block of a tree-reduction kernel: shared memory and threads
    mem,      \* device buffers of VAC and MODAL_ANALYSIS: allocation state and faults
    vi      \* Atom::initialize_velocity: positions, masses and the velocities built

vars == << vacObj, vacPhase, vacStep, vacLog, vacOut,
           ma, maPhase, maStep, maFile, maLog,
           atom, sw2, f12, pe, swPc, swLog, cap, swCtor, red, mem, vi >>

vacVars == << vacObj, vacPhase, vacStep, vacLog, vacOut >>
maVars  == << ma, maPhase, maStep, maFile, maLog >>
swVars  == << atom, sw2, f12, pe, swPc, swLog >>
capVars == << cap >>
ctorVars == << swCtor >>
redVars == << red >>
memVars == << mem >>
viVars == << vi >>

\* the variables a component leaves alone
notVacVars == << maVars, swVars, capVars, ctorVars, redVars, memVars, viVars >>
notMaVars == << vacVars, swVars, capVars, ctorVars, redVars, memVars, viVars >>
notSwVars == << vacVars, maVars, capVars, ctorVars, redVars, memVars, viVars >>
notCapVars == << vacVars, maVars, swVars, ctorVars, redVars, memVars, viVars >>
notCtorVars == << vacVars, maVars, swVars, capVars, redVars, memVars, viVars >>
notGateVars == << swVars, capVars, ctorVars, redVars, memVars, viVars >>
notRedVars == << vacVars, maVars, swVars, capVars, ctorVars, memVars, viVars >>
notLifeVars == << swVars, capVars, ctorVars, redVars, viVars >>
notMemVars == << vacVars, maVars, swVars, capVars, ctorVars, redVars, viVars >>
notViVars == << vacVars, maVars, swVars, capVars, ctorVars, redVars, memVars >>

-----------------------------------------------------------------------------
(* Generic helpers *)

Abs(x) == IF x < 0 THEN -x ELSE x

Min(a, b) == IF a < b THEN a ELSE b

Max(a, b) == IF a > b THEN a ELSE b

\* sum of f(0) + ... + f(n-1), in index order
RECURSIVE SumTo(_, _)
SumTo(f, n) == IF n <= 0 THEN 0 ELSE SumTo(f, n - 1) + f[n - 1]

Zero3 == << 0, 0, 0 >>

RECURSIVE GCD(_, _)
GCD(a, b) == IF b = 0 THEN a ELSE GCD(b, a % b)

Sign(x) == IF x > 0 THEN 1 ELSE IF x < 0 THEN -1 ELSE 0

\* double values as fractions << n, d >> in lowest terms with d > 0; the
\* IEEE specials are << 1, 0 >> (inf), << -1, 0 >> (-inf) and << 0, 0 >> (NaN)
RNorm(n, d) ==
    IF d = 0 THEN << Sign(n), 0 >>
    ELSE LET g == GCD(Abs(n), Abs(d))
         IN  << (Sign(d) * n) \div g, Abs(d) \div g >>

Rat(n) == << n, 1 >>
RNaN == << 0, 0 >>

RMul(a, b) == RNorm(a[1] * b[1], a[2] * b[2])

RDiv(a, b) == RMul(a, RNorm(b[2], b[1]))

RAdd(a, b) ==
    IF a[2] = 0 /\ b[2] = 0
    THEN (IF a[1] = b[1] THEN a ELSE RNaN)
    ELSE RNorm(a[1] * b[2] + b[1] * a[2], a[2] * b[2])

IsFinite(a) == a[2] # 0

\* the same function as f, held as an explicit table
Table(f) == f @@ << >>

-----------------------------------------------------------------------------
(*                               V A C                                     *)

\* bounds of the VAC model
VacAtomN == 2            \* atom->N
MaxNc == 3               \* largest number of correlation points Nc
MaxSampleInterval == 2   \* largest sample_interval
VacMaxStep == 6          \* the run calls process with step = 0 .. VacMaxStep-1
VacVelFields == 2        \* distinct velocity fields the integrator can produce

\* velocity field number k that the integrator can leave in atom->vx, vy, vz
\* (one triple per atom)
VelField(k) == [n \in 0 .. VacAtomN - 1 |->
                  << k + n, n - 2 * k, ((k * (n + 1)) % 3) - 1 >>]

\* atom->mass
AtomMass == [n \in 0 .. VacAtomN - 1 |-> n + 2]

\* atom->group[0]: group 0 holds the last atom, group 1 all the others;
\* contents lists the members group by group
GroupContents == [k \in 0 .. VacAtomN - 1 |-> VacAtomN - 1 - k]
GroupSize     == [g \in 0 .. 1 |-> IF g = 0 THEN 1 ELSE VacAtomN - 1]
GroupSizeSum  == [g \in 0 .. 1 |-> IF g = 0 THEN 0 ELSE 1]

\* what cudaMalloc may leave in a fresh velocity buffer
UninitVel == { Zero3, << 7, 7, 7 >> }

\* the public settings of a VAC object, as the input file sets them
VacSettings ==
    { [compute_dos |-> d, compute_sdc |-> s, sample_interval |-> si,
       grouping_method |-> gm, group |-> g, Nc |-> nc,
       num_dos_points |-> ndp, omega_max |-> om, time_step |-> 1] :
        ndp \in { -1, 2 }, d \in 0 .. 1, s \in 0 .. 1, si \in 1 .. MaxSampleInterval,
        gm \in { -1, 0 }, g \in 0 .. 1, nc \in 1 .. MaxNc,
        om \in { 1000, 2000 } }

\* no output yet
NoVacOut ==
    [norm |-> << >>, mvac |-> << >>, windowed |-> << >>, dos |-> << >>,
     sdc |-> << >>, sdc_file |-> << >>, raw |-> << >>]

NoVacLog ==
    [calls |-> 0, sample_step |-> -1, slot |-> -1, ran |-> FALSE,
     everRan |-> FALSE, firstFill |-> FALSE,
     snapshot |-> << >>, vac0_before |-> Zero3,
     target |-> << >>, hits |-> << >>, error |-> "",
     written |-> << >>, vac_before |-> << >>]

VacIdle ==
    /\ vacObj = [compute_dos |-> 0, compute_sdc |-> 0, sample_interval |-> 1,
                 grouping_method |-> -1, group |-> 0, Nc |-> 1,
                 num_dos_points |-> -1, omega_max |-> 1000, time_step |-> 1,
                 N |-> 0, num_time_origins |-> 0, mass |-> << >>,
                 v |-> << >>, vac |-> << >>]
    /\ vacPhase = "config"
    /\ vacStep = 0
    /\ vacLog = NoVacLog
    /\ vacOut = NoVacOut

InitVacObj ==
    /\ \E c \in VacSettings :
          /\ (c.grouping_method = -1 => c.group = 0)
          /\ (c.compute_dos = c.compute_sdc => c.omega_max = 1000)
          /\ ((c.compute_dos = 0 \/ c.compute_sdc # 0) => c.num_dos_points = -1)
          /\ vacObj = c @@ [N |-> 0, num_time_origins |-> 0, mass |-> << >>,
                            v |-> << >>, vac |-> << >>]
    /\ vacPhase = "config"
    /\ vacStep = 0
    /\ vacLog = NoVacLog
    /\ vacOut = NoVacOut

\* the Nyquist test  nu_max < omega_max / PI  with nu_max = 1000/(time_step *
\* sample_interval), PI taken as 355/113 and both sides cleared of fractions
NyquistViolatedMutant(o) ==
    1000 * 355 < o.omega_max * 113 * o.time_step
NyquistViolated(o) ==
    1000 * 355 < o.omega_max * 113 * o.time_step * o.sample_interval

\* the test that rejects a request for both DOS and SDC
SimultaneousMutant(o) == o.compute_dos # o.compute_sdc
Simultaneous(o) == o.compute_dos = o.compute_sdc

\* the messages of the two PRINT_INPUT_ERROR calls of VAC::preprocess
SimultaneousError == "Cannot calculate DOS and SDC simultaneously."
NyquistError == "VAC sampling rate < Nyquist frequency."

\* VAC::preprocess
VAC_preprocess ==
    /\ vacPhase = "config"
    /\ UNCHANGED << vacStep, vacOut >>
    /\ IF vacObj.compute_dos = 0 /\ vacObj.compute_sdc = 0
       THEN /\ vacPhase' = "running"
            /\ UNCHANGED << vacObj, vacLog >>
       ELSE IF Simultaneous(vacObj)
       THEN /\ vacPhase' = "error"
            /\ vacLog' = [vacLog EXCEPT !.error = SimultaneousError]
            /\ UNCHANGED vacObj
       ELSE \E junk \in UninitVel :
            LET n  == IF vacObj.grouping_method = -1
                      THEN VacAtomN
                      ELSE GroupSize[vacObj.group]
                nc == vacObj.Nc
                m  == IF vacObj.grouping_method >= 0
                      THEN [k \in 0 .. n - 1 |->
                              AtomMass[GroupContents[GroupSizeSum[vacObj.group] + k]]]
                      ELSE [k \in 0 .. n - 1 |-> AtomMass[k]]
                o1 == [vacObj EXCEPT !.num_time_origins = 0,
                                     !.N = n,
                                     !.v = [i \in 0 .. n * nc - 1 |-> junk],
                                     !.vac = [l \in 0 .. nc - 1 |-> Zero3],
                                     !.num_dos_points =
                                        IF vacObj.compute_dos # 0 /\ @ = -1
                                        THEN nc ELSE @]
            IN  IF vacObj.compute_dos # 0 /\ NyquistViolated(vacObj)
                THEN /\ vacPhase' = "error"
                     /\ vacLog' = [vacLog EXCEPT !.error = NyquistError]
                     /\ vacObj' = o1
                ELSE /\ vacPhase' = "running"
                     /\ UNCHANGED vacLog
                     /\ vacObj' = IF vacObj.compute_dos # 0
                                  THEN [o1 EXCEPT !.mass = m]
                                  ELSE o1

\* int sample_step = step / sample_interval
SampleStepMutant(step, si) == (step + 1) \div si
SampleStep(step, si) == step \div si

\* gpu_copy_velocity (both overloads): the snapshot of the tracked atoms
CopyVelocity(o, vel) ==
    [n \in 0 .. o.N - 1 |->
        IF o.grouping_method >= 0
        THEN vel[GroupContents[GroupSizeSum[o.group] + n]]
        ELSE vel[n]]

\* the lag bin that block bid of gpu_find_vac adds to
LagBinMutant(bid, correlation_step, gridDim) ==
    IF bid < correlation_step
    THEN correlation_step - bid
    ELSE correlation_step + gridDim - bid
LagBin(bid, correlation_step, gridDim) ==
    IF bid <= correlation_step
    THEN correlation_step - bid
    ELSE correlation_step + gridDim - bid

\* the sum that block bid of gpu_find_vac reduces, along axis ax:
\* g_v = buf + offset is the current snapshot, g_v_all = buf the whole ring
BlockSum(o, buf, offset, bid, ax) ==
    SumTo([n \in 0 .. o.N - 1 |->
              (IF o.compute_dos # 0 THEN o.mass[n] ELSE 1)
              * buf[offset + n][ax] * buf[bid * o.N + n][ax]], o.N)

\* the buffer gpu_find_vac reads: the ring after the copy of this call
KernelInputMutant(before, after) == before
KernelInput(before, after) == after

\* the test that starts the correlation
WindowFullMutant(sample_step, nc) == sample_step >= nc
WindowFull(sample_step, nc) == sample_step >= nc - 1

\* the test that returns from VAC::process on a step that is not sampled
VacNotSampledMutant(step, si) == step % si # 0
VacNotSampled(step, si) == (step + 1) % si # 0

\* where the ring slot of correlation_step starts in the velocity buffers
SlotOffsetMutant(correlation_step, n) == 0
SlotOffset(correlation_step, n) == correlation_step * n

\* VAC::process(step, atom), called with step = vacStep
VAC_process(vel) ==
    /\ vacPhase = "running"
    /\ vacStep < VacMaxStep
    /\ vacStep' = vacStep + 1
    /\ UNCHANGED << vacPhase, vacOut >>
    /\ LET o    == vacObj
           step == vacStep
       IN
       IF ~(o.compute_dos # 0 \/ o.compute_sdc # 0)
       THEN UNCHANGED << vacObj, vacLog >>
       ELSE IF VacNotSampled(step, o.sample_interval)
       THEN UNCHANGED << vacObj, vacLog >>
       ELSE
         LET sample_step      == SampleStep(step, o.sample_interval)
             correlation_step == sample_step % o.Nc
             offset           == SlotOffset(correlation_step, o.N)
             snap             == CopyVelocity(o, vel)
             v1  == [i \in DOMAIN o.v |->
                        IF i >= offset /\ i < offset + o.N
                        THEN snap[i - offset] ELSE o.v[i]]
             run == WindowFull(sample_step, o.Nc)
             in  == KernelInput(o.v, v1)
             tgt == [bid \in 0 .. o.Nc - 1 |->
                        LagBin(bid, correlation_step, o.Nc)]
             add(l, ax) ==
                 SumTo([bid \in 0 .. o.Nc - 1 |->
                           IF tgt[bid] = l
                           THEN BlockSum(o, in, offset, bid, ax) ELSE 0], o.Nc)
             vac1 == [l \in 0 .. o.Nc - 1 |->
                        << o.vac[l][1] + add(l, 1),
                           o.vac[l][2] + add(l, 2),
                           o.vac[l][3] + add(l, 3) >>]
         IN
         /\ vacObj' = IF run
                      THEN [o EXCEPT !.v = v1,
                                     !.num_time_origins = @ + 1,
                                     !.vac = vac1]
                      ELSE [o EXCEPT !.v = v1]
         /\ vacLog' =
              [calls       |-> vacLog.calls + 1,
               sample_step |-> sample_step,
               slot        |-> correlation_step,
               ran         |-> run,
               everRan     |-> vacLog.everRan \/ run,
               firstFill   |-> run /\ ~vacLog.everRan,
               snapshot    |-> snap,
               vac0_before |-> IF o.Nc > 0 THEN o.vac[0] ELSE Zero3,
               target      |-> IF run THEN tgt ELSE vacLog.target,
               hits        |-> IF run
                               THEN [l \in 0 .. o.Nc - 1 |->
                                       (IF vacLog.everRan THEN vacLog.hits[l] ELSE 0)
                                       + Cardinality({ b \in 0 .. o.Nc - 1 : tgt[b] = l })]
                               ELSE vacLog.hits,
               error       |-> vacLog.error,
               written     |-> [b \in 0 .. o.Nc - 1 |->
                                  IF b = correlation_step
                                  THEN [call |-> vacLog.calls + 1, snap |-> snap]
                                  ELSE IF b \in DOMAIN vacLog.written
                                  THEN vacLog.written[b]
                                  ELSE [call |-> 0, snap |-> << >>]],
               vac_before  |-> o.vac]

VacProcessStep == \E k \in 1 .. VacVelFields : VAC_process(VelField(k))

\* TIME_UNIT_CONVERSION (natural time unit in fs), on the integer grid
TimeUnitConversion == 10

\* dt and dt_in_ps as VAC::preprocess sets them
DtNatural(o) == Rat(o.time_step * o.sample_interval)
DtInPs(o) == RDiv(RMul(DtNatural(o), Rat(TimeUnitConversion)), Rat(1000))

\* cos(PI * k / n) for 0 <= k < n <= 6, to three decimals
CosPi(k, n) ==
    LET g == GCD(k, n)
        p == k \div g
        q == n \div g
        c == CASE q = 1 -> 1000
               [] q = 2 -> 0
               [] q = 3 -> 500
               [] q = 4 -> 707
               [] q = 5 -> IF p = 1 \/ p = 4 THEN 809 ELSE 309
               [] q = 6 -> 866
    IN  RNorm(IF 2 * p > q THEN -c ELSE c, 1000)

\* each axis of the triple v multiplied by / divided by a value
Scale3(v, f) == << RMul(v[1], f), RMul(v[2], f), RMul(v[3], f) >>
Div3(v, w) == << RDiv(v[1], w[1]), RDiv(v[2], w[2]), RDiv(v[3], w[3]) >>
Rat3(v) == << Rat(v[1]), Rat(v[2]), Rat(v[3]) >>

\* perform_dft: the Hann window of lag nc
HannWindow(nc, Nc) == RMul(RAdd(CosPi(nc, Nc), Rat(1)), << 1, 2 >>)

\* perform_dft: the factor lag nc is multiplied by
MultiplyFactorMutant(nc, hann_window) == RMul(Rat(2), hann_window)
MultiplyFactor(nc, hann_window) ==
    IF nc = 0 THEN RMul(Rat(1), hann_window) ELSE RMul(Rat(2), hann_window)

\* perform_dft, first loop: the windowed correlation
ApplyWindow(vac, Nc) ==
    [nc \in 0 .. Nc - 1 |->
        Scale3(vac[nc], MultiplyFactor(nc, HannWindow(nc, Nc)))]

\* the angular frequency of DOS point nw
Omega(omega_0, d_omega, nw) == RAdd(omega_0, RMul(Rat(nw), d_omega))

\* perform_dft, second loop: DOS point nw, with the cosine sum kept as its
\* list of terms (windowed value and angle omega * nc * delta_t, in loop
\* order) and the factor delta_t * 2 * N applied to it
PerformDft(N, Nc, num_dos_points, delta_t, omega_0, d_omega, windowed) ==
    [nw \in 0 .. num_dos_points - 1 |->
        [terms |-> [nc \in 0 .. Nc - 1 |->
                      [v |-> windowed[nc],
                       angle |-> RMul(RMul(Omega(omega_0, d_omega, nw), Rat(nc)),
                                      delta_t)]],
         factor |-> RMul(RMul(delta_t, Rat(2)), Rat(N))]]

\* integrate_vac: one step of the loop
TrapezoidStepMutant(prev, a, b, dt2) == RAdd(prev, RMul(RAdd(b, b), dt2))
TrapezoidStep(prev, a, b, dt2) == RAdd(prev, RMul(RAdd(a, b), dt2))

\* integrate_vac: sdc[nc] along axis ax, from sdc[0] = 0
RECURSIVE IntegrateVac(_, _, _, _)
IntegrateVac(nc, dt, vac, ax) ==
    IF nc = 0 THEN Rat(0)
    ELSE TrapezoidStep(IntegrateVac(nc - 1, dt, vac, ax),
                       vac[nc - 1][ax], vac[nc][ax], RMul(dt, << 1, 2 >>))

\* VAC::postprocess, followed by the end of the run.  The arrays the code
\* rewrites in place (vac_x, vac_y, vac_z) are recorded stage by stage in
\* vacOut: raw is their content on entry, norm after the normalisation,
\* windowed after the Hann loop
VAC_postprocess ==
    /\ vacPhase = "running"
    /\ vacPhase' = "done"
    /\ UNCHANGED << vacStep, vacLog >>
    /\ LET o   == vacObj
           Nc  == o.Nc
           lag == 0 .. Nc - 1
           raw == [nc \in lag |-> Rat3(o.vac[nc])]
       IN
       IF ~(o.compute_dos # 0 \/ o.compute_sdc # 0)
       THEN UNCHANGED << vacObj, vacOut >>
       ELSE IF o.compute_dos # 0
       THEN
         \E norm \in { Table([nc \in lag |-> Div3(raw[nc], raw[0])]) } :
         \E win \in { Table(ApplyWindow(norm, Nc)) } :
           LET d_omega == RDiv(Rat(o.omega_max), Rat(o.num_dos_points))
               omega_0 == d_omega
               dos     == PerformDft(o.N, Nc, o.num_dos_points, DtInPs(o),
                                     omega_0, d_omega, win)
           IN
           /\ vacOut' = [vacOut EXCEPT
                 !.raw = raw,
                 !.norm = norm,
                 !.mvac = [nc \in lag |->
                             << RMul(Rat(nc), DtInPs(o)) >> \o norm[nc]],
                 !.windowed = win,
                 !.dos = [nw \in 0 .. o.num_dos_points - 1 |->
                            [omega |-> Omega(omega_0, d_omega, nw),
                             dos |-> dos[nw]]]]
           /\ UNCHANGED vacObj
       ELSE
         \E norm \in { Table([nc \in lag |->
                          Div3(raw[nc], Rat3(<< o.N * o.num_time_origins,
                                                o.N * o.num_time_origins,
                                                o.N * o.num_time_origins >>))]) } :
         \E sdc \in { Table([nc \in lag |->
                          << IntegrateVac(nc, DtNatural(o), norm, 1),
                             IntegrateVac(nc, DtNatural(o), norm, 2),
                             IntegrateVac(nc, DtNatural(o), norm, 3) >>]) } :
           LET vac_unit == RDiv(RDiv(Rat(1000000), Rat(TimeUnitConversion)),
                                Rat(TimeUnitConversion))
               sdc_unit == RDiv(Rat(1000), Rat(TimeUnitConversion))
           IN
           /\ vacOut' = [vacOut EXCEPT
                 !.raw = raw,
                 !.norm = norm,
                 !.sdc = sdc,
                 !.sdc_file = [nc \in lag |->
                                 << RMul(Rat(nc), DtInPs(o)) >>
                                 \o Scale3(norm[nc], vac_unit)
                                 \o Scale3(sdc[nc], sdc_unit)]]
           /\ UNCHANGED vacObj

-----------------------------------------------------------------------------
(*                      M O D A L _ A N A L Y S I S                        *)

NO_METHOD == -1
GKMA_METHOD == 0
HNEMA_METHOD == 1
NUM_OF_HEAT_COMPONENTS == 5

\* bounds of the MODAL_ANALYSIS model
MaMaxStep == 6          \* the run calls process with step = 0 .. MaMaxStep-1
MaMaxSample == 2        \* largest sample_interval
MaMaxOutput == 3        \* largest output_interval
MaMaxModes == 3         \* modes listed in eigenvector.out
MaAtomStates == 2       \* distinct atom states the integrator can produce
BinMaxFreq == 5         \* largest frequency magnitude on the grid (SpecBin)
BinMaxWidth == 3        \* largest f_bin_size on the grid (SpecBin)

\* atom->cpu_type_size and atom->N: two types, one atom then two atoms
CpuTypeSize == << 1, 2 >>
MaAtomN == CpuTypeSize[1] + CpuTypeSize[2]

\* atom->mass of the modal-analysis run (perfect squares, so sqrt is exact)
MaMass == [n \in 0 .. MaAtomN - 1 |-> IF n % 2 = 0 THEN 1 ELSE 4]

\* KAPPA_UNIT_CONVERSION / (volume * temperature * fe) on the integer grid
KappaOverVTF == 60

ISqrt(m) == CHOOSE r \in 0 .. m : r * r <= m /\ m < (r + 1) * (r + 1)

\* sqrt(mass), and rsqrt(mass) counted in halves (jmn, jm and bin_out are
\* therefore held in units of one half)
SqrtMass(m) == ISqrt(m)
RSqrtMass2(m) == 2 \div ISqrt(m)

\* atom state number k: velocities (one triple per atom) and the flat
\* virial_per_atom array of 9 * N entries
AtomVel(k) == [n \in 0 .. MaAtomN - 1 |->
                 << ((n + k) % 3) - 1, k, n - k >>]
AtomVirial(k) == [i \in 0 .. 9 * MaAtomN - 1 |-> ((i * (k + 1) + k) % 5) - 2]

\* eigenvector.out: component i of the line of mode number m (0-based)
FileEig(m, i) == ((m * 5 + i * 3) % 4) - 1

\* f[i] = copysign(sqrt(abs(temp)) / (2 PI), temp): the frequency of an
\* eigenvalue, in grid units of 1/(2 PI); eigenvalues are perfect squares
Freq(temp) == IF temp < 0 THEN -ISqrt(-temp) ELSE ISqrt(temp)

\* MODAL_ANALYSIS::setN
SetN(atom_begin, atom_end) ==
    LET n1 == SumTo([n \in 0 .. atom_begin - 1 |-> CpuTypeSize[n + 1]], atom_begin)
        n2 == SumTo([n \in 0 .. atom_end - atom_begin |->
                        CpuTypeSize[atom_begin + n + 1]], atom_end - atom_begin + 1)
    IN  [N1 |-> n1, N2 |-> n2, num_participating |-> n2 - n1]

\* the bin of selected mode i: int(abs(f[i] / f_bin_size)) - shift
BinIndexMutant(f, i, f_bin_size, shift) == Abs(f[i]) \div f_bin_size
BinIndex(f, i, f_bin_size, shift) == (Abs(f[i]) \div f_bin_size) - shift

\* bin_sum[i] = bin_sum[i-1] + bin_count[i-1], bin_sum[0] = 0
RECURSIVE BinSumMutant(_, _)
BinSumMutant(bin_count, i) ==
    IF i = 0 THEN 0 ELSE BinSumMutant(bin_count, i - 1) + bin_count[i]
RECURSIVE BinSum(_, _)
BinSum(bin_count, i) ==
    IF i = 0 THEN 0 ELSE BinSum(bin_count, i - 1) + bin_count[i - 1]

\* the frequency binning of preprocess (f_flag # 0); file_freq is the first
\* line of eigenvector.out
FrequencyBinning(file_freq, first_mode, num_modes, f_bin_size) ==
    LET f     == [i \in 0 .. num_modes - 1 |-> Freq(file_freq[first_mode + i])]
        fmax  == ((Abs(f[num_modes - 1]) \div f_bin_size) + 1) * f_bin_size
        fmin  == (Abs(f[0]) \div f_bin_size) * f_bin_size
        shift == Abs(fmin) \div f_bin_size
        nb    == (fmax - fmin) \div f_bin_size
        cnt   == [b \in 0 .. nb - 1 |->
                    Cardinality({ i \in 0 .. num_modes - 1 :
                                    BinIndex(f, i, f_bin_size, shift) = b })]
    IN  [f |-> f, shift |-> shift, num_bins |-> nb, bin_count |-> cnt,
         bin_sum |-> [b \in 0 .. nb - 1 |-> BinSum(cnt, b)]]

\* what cudaMallocManaged may leave in a fresh float buffer
UninitFloat == { 0, 77 }

\* first lines of eigenvector.out used by the process runs (eigenvalues)
MaFileFreq == [i \in 1 .. MaMaxModes |-> i * i]

NoMaLog ==
    [calls |-> 0, step |-> -1, sampled |-> FALSE, wrote |-> FALSE,
     fileBefore |-> 0, state |-> 0, pending |-> << >>, averaged |-> 0]

MaObject(c) ==
    c @@ [num_modes |-> 0, samples_per_output |-> 0, num_bins |-> 0,
          N1 |-> 0, N2 |-> 0, num_participating |-> 0, num_heat_stored |-> 0,
          eig |-> << >>, xdotn |-> << >>, xdot |-> << >>, jmn |-> << >>,
          jm |-> << >>, bin_out |-> << >>, bin_count |-> << >>,
          bin_sum |-> << >>]

MaIdle ==
    /\ ma = MaObject([compute |-> 0, method |-> NO_METHOD, output_interval |-> 1,
                      sample_interval |-> 1, first_mode |-> 1, last_mode |-> 1,
                      bin_size |-> 1, f_bin_size |-> 1, f_flag |-> 0,
                      atom_begin |-> 0, atom_end |-> 0,
                      file_ok |-> TRUE, file_freq |-> << 1 >>])
    /\ maPhase = "config"
    /\ maStep = 0
    /\ maFile = << >>
    /\ maLog = NoMaLog

\* the settings of a MODAL_ANALYSIS object for the process runs
MaSettings ==
    { [compute |-> co, method |-> me, output_interval |-> oi,
       sample_interval |-> si, first_mode |-> fm, last_mode |-> lm,
       bin_size |-> bs, f_bin_size |-> bs, f_flag |-> ff,
       atom_begin |-> r[1], atom_end |-> r[2],
       file_ok |-> ok, file_freq |-> MaFileFreq] :
        co \in 0 .. 1, ok \in BOOLEAN,
        me \in { GKMA_METHOD, HNEMA_METHOD },
        oi \in 1 .. MaMaxOutput, si \in 1 .. MaMaxSample,
        fm \in 1 .. 2, lm \in 2 .. MaMaxModes, bs \in 1 .. 2, ff \in 0 .. 1,
        r \in { << 0, 0 >>, << 0, 1 >>, << 1, 1 >> } }

InitMaObj ==
    /\ \E c \in MaSettings :
          /\ c.first_mode <= c.last_mode
          /\ c.last_mode <= Len(c.file_freq)
          /\ c.sample_interval <= c.output_interval
          /\ (c.method = GKMA_METHOD => c.output_interval = c.sample_interval)
          /\ (c.f_flag = 0 => c.bin_size <= c.last_mode - c.first_mode + 1)
          /\ ma = MaObject(c)
    /\ maPhase = "config"
    /\ maStep = 0
    /\ maFile = << >>
    /\ maLog = NoMaLog

\* first lines of eigenvector.out for the binning runs: eigenvalues whose
\* frequencies are ascending in magnitude
RECURSIVE AscendingLines(_)
AscendingLines(n) ==
    IF n = 0 THEN { << >> }
    ELSE { Append(l, s * m * m) :
             l \in AscendingLines(n - 1), s \in { -1, 1 }, m \in 0 .. BinMaxFreq }

AscendingInMagnitude(l) ==
    \A i \in 1 .. Len(l) - 1 : Abs(Freq(l[i])) <= Abs(Freq(l[i + 1]))

InitBinObj ==
    /\ \E n \in 1 .. MaMaxModes, w \in 1 .. BinMaxWidth, fm \in 1 .. 2 :
       \E l \in AscendingLines(n) :
          /\ AscendingInMagnitude(l)
          /\ fm <= n
          /\ ma = MaObject([compute |-> 1, method |-> GKMA_METHOD,
                            output_interval |-> 1, sample_interval |-> 1,
                            first_mode |-> fm, last_mode |-> n,
                            bin_size |-> 1, f_bin_size |-> w, f_flag |-> 1,
                            atom_begin |-> 0, atom_end |-> 0,
                            file_ok |-> TRUE, file_freq |-> l])
    /\ maPhase = "config"
    /\ maStep = 0
    /\ maFile = << >>
    /\ maLog = NoMaLog

\* the test after eigfile.open: the stream is in a failed state
OpenFailedMutant(m) == FALSE
OpenFailed(m) == ~m.file_ok

\* MODAL_ANALYSIS::preprocess
MA_preprocess ==
    /\ maPhase = "config"
    /\ UNCHANGED << maStep, maFile, maLog >>
    /\ IF ma.compute = 0
       THEN /\ maPhase' = "running"
            /\ UNCHANGED ma
       ELSE
         LET num_modes == ma.last_mode - ma.first_mode + 1
             spo       == ma.output_interval \div ma.sample_interval
             sn        == SetN(ma.atom_begin, ma.atom_end)
             P         == sn.num_participating
             m1 == [ma EXCEPT !.num_modes = num_modes,
                              !.samples_per_output = spo,
                              !.N1 = sn.N1, !.N2 = sn.N2,
                              !.num_participating = P]
         IN
         IF OpenFailed(ma)
         THEN /\ maPhase' = "error"
              /\ ma' = m1
         ELSE \E junk \in UninitFloat :
           LET fb == FrequencyBinning(ma.file_freq, ma.first_mode,
                                      num_modes, ma.f_bin_size)
               nb == IF ma.f_flag # 0 THEN fb.num_bins
                     ELSE num_modes \div ma.bin_size
               stored == num_modes * NUM_OF_HEAT_COMPONENTS
               fill(n, x) == [i \in 0 .. n - 1 |-> x]
           IN
           /\ maPhase' = "running"
           /\ ma' = [m1 EXCEPT
                !.num_bins = nb,
                !.bin_count = IF ma.f_flag # 0 THEN fb.bin_count ELSE << >>,
                !.bin_sum = IF ma.f_flag # 0 THEN fb.bin_sum ELSE << >>,
                !.eig = [i \in 0 .. 3 * P * num_modes - 1 |->
                           FileEig(ma.first_mode - 1 + (i \div (3 * P)),
                                   i % (3 * P))],
                !.xdot = fill(num_modes * 3, junk),
                !.xdotn = fill(num_modes * 3 * P, junk),
                !.jm = fill(stored, junk),
                !.jmn = IF ma.method = HNEMA_METHOD
                        THEN fill(stored * P, 0)
                        ELSE fill(stored * P, junk),
                !.bin_out = fill(nb * NUM_OF_HEAT_COMPONENTS, junk),
                !.num_heat_stored = stored]

\* gpu_calc_xdotn: the per-atom modal velocities, index neig + (nm + c*M)*P
CalcXdotn(m, vel) ==
    LET P == m.num_participating
        M == m.num_modes
    IN  [i \in DOMAIN m.xdotn |->
           LET neig    == i % P
               q       == i \div P
               c       == q \div M
               nm      == q % M
               nglobal == neig + m.N1
           IN  IF nglobal >= m.N1 /\ nglobal < m.N2 /\ nm < M
               THEN SqrtMass(MaMass[nglobal])
                    * m.eig[neig + (c + nm * 3) * P] * vel[nglobal][c + 1]
               ELSE m.xdotn[i]]

\* gpu_reduce_xdotn: block bid sums its participating atoms, per direction
ReduceXdotn(m, xdotn) ==
    LET P == m.num_participating
        M == m.num_modes
    IN  [i \in DOMAIN m.xdot |->
           SumTo([n \in 0 .. P - 1 |-> xdotn[n + i * P]], P)]

\* the five heat-current components that gpu_set_jmn and gpu_accumulate_jmn
\* compute for atom neig and mode nm (component c = 0 .. 4), in halves
\* compute_heat: the multiples of atom->N added to virial_per_atom for the
\* arguments sxx, sxy, sxz, syx, syy, syz, szx, szy, szz, in that order
VirialArgOffsetMutant == << 0, 1, 2, 3, 4, 5, 6, 7, 8 >>
VirialArgOffset == << 0, 3, 4, 6, 1, 5, 7, 8, 2 >>

HeatTerm(m, xdot, virial, neig, nm, c) ==
    LET P  == m.num_participating
        M  == m.num_modes
        N  == MaAtomN
        ng == neig + m.N1
        rs == RSqrtMass2(MaMass[ng])
        vx_ma == rs * m.eig[neig + nm * 3 * P] * xdot[nm]
        vy_ma == rs * m.eig[neig + (1 + nm * 3) * P] * xdot[nm + M]
        vz_ma == rs * m.eig[neig + (2 + nm * 3) * P] * xdot[nm + 2 * M]
        arg(j) == virial[N * VirialArgOffset[j] + ng]
        sxx == arg(1)  sxy == arg(2)  sxz == arg(3)
        syx == arg(4)  syy == arg(5)  syz == arg(6)
        szx == arg(7)  szy == arg(8)  szz == arg(9)
    IN  CASE c = 0 -> sxx * vx_ma + sxy * vy_ma
          [] c = 1 -> sxz * vz_ma
          [] c = 2 -> syx * vx_ma + syy * vy_ma
          [] c = 3 -> syz * vz_ma
          [] c = 4 -> szx * vx_ma + szy * vy_ma + szz * vz_ma

\* how a kernel thread stores its term: gpu_set_jmn assigns,
\* gpu_accumulate_jmn adds
StoreJmnMutant(method, old, term) ==
    IF method = GKMA_METHOD THEN old + term ELSE term
StoreJmn(method, old, term) ==
    IF method = GKMA_METHOD THEN term
    ELSE IF method = HNEMA_METHOD THEN old + term
    ELSE old

\* the launch of gpu_set_jmn or gpu_accumulate_jmn in compute_heat: the
\* new jmn, from the reduced modal velocities xdot
LaunchJmn(m, xdot, virial) ==
    LET P == m.num_participating
        M == m.num_modes
    IN  [i \in DOMAIN m.jmn |->
           LET neig == i % P
               q    == i \div P
               c    == q \div M
               nm   == q % M
               ng   == neig + m.N1
           IN  IF ng >= m.N1 /\ ng < m.N2 /\ nm < M
               THEN StoreJmn(m.method, m.jmn[i],
                             HeatTerm(m, xdot, virial, neig, nm, c))
               ELSE m.jmn[i]]

\* gpu_reduce_jmn: block bid (a mode) sums its atoms, per component
ReduceJmn(m) ==
    LET P == m.num_participating
    IN  [i \in DOMAIN m.jm |->
           SumTo([n \in 0 .. P - 1 |-> m.jmn[n + i * P]], P)]

\* gpu_scale_jm with factor = KAPPA_UNIT_CONVERSION /
\* (volume * temperature * fe * samples_per_output)
ScaleJm(m, jm) ==
    [i \in DOMAIN jm |->
        IF i < m.num_heat_stored
        THEN jm[i] * (KappaOverVTF \div m.samples_per_output)
        ELSE jm[i]]

\* gpu_bin_reduce for block bid: the sum of bin_size entries from shift on
BinReduce(m, jm, bin_size, shift, c) ==
    SumTo([n \in 0 .. bin_size - 1 |-> jm[n + shift + c * m.num_modes]],
          bin_size)

\* gpu_bin_frequencies / gpu_bin_modes: the new bin_out
BinOut(m, jm) ==
    [i \in DOMAIN m.bin_out |->
        LET bid == i % m.num_bins
            c   == i \div m.num_bins
        IN  IF m.f_flag # 0
            THEN BinReduce(m, jm, m.bin_count[bid], m.bin_sum[bid], c)
            ELSE BinReduce(m, jm, m.bin_size, bid * m.bin_size, c)]

\* the lines process appends: one per bin, five numbers each
OutputLines(m, bin_out) ==
    [i \in 1 .. m.num_bins |->
        << bin_out[i - 1], bin_out[i - 1 + m.num_bins],
           bin_out[i - 1 + 2 * m.num_bins], bin_out[i - 1 + 3 * m.num_bins],
           bin_out[i - 1 + 4 * m.num_bins] >>]

\* the test that ends a HNEMA call before any output
HnemaSkipsOutputMutant(m, step) ==
    m.method = HNEMA_METHOD
       /\ ~((step + 1) % (m.samples_per_output) = 0)
HnemaSkipsOutput(m, step) ==
    m.method = HNEMA_METHOD /\ ~((step + 1) % m.output_interval = 0)

\* the reset that closes a HNEMA output: gpu_reset_data over jmn
ResetAfterOutputMutant(m) == m.jmn
ResetAfterOutput(m) ==
    IF m.method = HNEMA_METHOD
    THEN [i \in DOMAIN m.jmn |->
            IF i < m.num_heat_stored * m.num_participating THEN 0 ELSE m.jmn[i]]
    ELSE m.jmn

\* the test that returns from MODAL_ANALYSIS::process on a step that is not
\* sampled
MaNotSampledMutant(step, si) == ~(step % si = 0)
MaNotSampled(step, si) == ~((step + 1) % si = 0)

\* MODAL_ANALYSIS::process(step, atom, integrate, fe), called with
\* step = maStep while the atoms are in state number k
MA_process(k) ==
    /\ maPhase = "running"
    /\ maStep < MaMaxStep
    /\ maStep' = maStep + 1
    /\ UNCHANGED maPhase
    /\ LET step == maStep IN
       IF ma.compute = 0
       THEN UNCHANGED << ma, maFile, maLog >>
       ELSE IF MaNotSampled(step, ma.sample_interval)
       THEN /\ UNCHANGED << ma, maFile >>
            /\ maLog' = [maLog EXCEPT !.step = step, !.sampled = FALSE,
                                      !.wrote = FALSE,
                                      !.fileBefore = Len(maFile)]
       ELSE
         \E xn \in { Table(CalcXdotn(ma, AtomVel(k))) } :
         \E xd \in { Table(ReduceXdotn(ma, xn)) } :
         \E j1 \in { Table(LaunchJmn(ma, xd, AtomVirial(k))) } :
         \E m1 \in { [ma EXCEPT !.xdotn = xn, !.xdot = xd, !.jmn = j1] } :
         IF HnemaSkipsOutput(m1, step)
         THEN /\ ma' = m1
              /\ UNCHANGED maFile
              /\ maLog' = [calls |-> maLog.calls + 1, step |-> step,
                           sampled |-> TRUE, wrote |-> FALSE,
                           fileBefore |-> Len(maFile), state |-> k,
                           pending |-> Append(maLog.pending, k),
                           averaged |-> maLog.averaged]
         ELSE
           \E jm0 \in { Table(ReduceJmn(m1)) } :
           \E jm1 \in { IF m1.method = HNEMA_METHOD
                        THEN Table(ScaleJm(m1, jm0)) ELSE jm0 } :
           \E bo \in { Table(BinOut(m1, jm1)) } :
           \E m2 \in { [m1 EXCEPT !.jm = jm1, !.bin_out = bo] } :
           /\ ma' = [m2 EXCEPT !.jmn = ResetAfterOutput(m2)]
           /\ maFile' = maFile \o OutputLines(m2, bo)
           /\ maLog' = [calls |-> maLog.calls + 1, step |-> step,
                        sampled |-> TRUE, wrote |-> TRUE,
                        fileBefore |-> Len(maFile), state |-> k,
                        pending |-> IF m1.method = HNEMA_METHOD
                                    THEN << >>
                                    ELSE << k >>,
                        averaged |-> IF m1.method = HNEMA_METHOD
                                     THEN Len(maLog.pending) + 1
                                     ELSE 1]

MaProcessStep == \E k \in 1 .. MaAtomStates : MA_process(k)

-----------------------------------------------------------------------------
(*                               S W 2                                     *)

\* bounds of the SW2 model
SwAtomN == 3        \* atom->N
SwMN == 2           \* atom->neighbor.MN, the neighbour capacity per atom
SwMaxSpacing == 3   \* largest lattice spacing of the chain configurations
SwMaxBend == 2      \* largest sideways displacement of the odd atoms

\* the neighbour capacity of the partial-force buffers is min(MN, 50)
SwMaxSlots == 50

\* rc * rc for rc = sigma * a of the parameter file, and the square of the
\* cutoff the neighbour-list builder uses, on the integer grid
SwRc2 == 5
NeighborRc2 == 10

SwAtoms == 0 .. SwAtomN - 1

\* positions the integrator can produce: a chain along x with spacing s whose
\* odd atoms are displaced by b along y
Chain(s, b) == [n \in SwAtoms |-> << n * s, IF n % 2 = 1 THEN b ELSE 0, 0 >>]
SwConfigs == { Chain(s, b) : s \in 1 .. SwMaxSpacing, b \in 0 .. SwMaxBend }

Sub3(a, b) == << a[1] - b[1], a[2] - b[2], a[3] - b[3] >>
Norm2(r) == r[1] * r[1] + r[2] * r[2] + r[3] * r[3]

\* the neighbour-list builder: for each atom the other atoms closer than the
\* builder's cutoff, in ascending index order, at most MN of them;
\* neighbour i1 of atom n1 sits at index i1 * N + n1
RECURSIVE SortedSeq(_)
SortedSeq(S) ==
    IF S = {} THEN << >>
    ELSE LET m == CHOOSE x \in S : \A y \in S : x <= y
         IN  << m >> \o SortedSeq(S \ { m })

BuildNeighbor(x) ==
    LET near(n) == SortedSeq({ m \in SwAtoms :
                                 m # n /\ Norm2(Sub3(x[m], x[n])) < NeighborRc2 })
    IN  [NN |-> [n \in SwAtoms |-> Min(Len(near(n)), SwMN)],
         NL |-> [i \in 0 .. SwMN * SwAtomN - 1 |->
                   LET n  == i % SwAtomN
                       i1 == i \div SwAtomN
                   IN  IF i1 < Len(near(n)) THEN near(n)[i1 + 1] ELSE 0]]

\* values of one (f12x, f12y, f12z) entry.  The kernel's arithmetic is kept
\* symbolic: a computed entry is identified by the operands it was computed
\* from (the pair displacement and, in loop order, the displacements of the
\* second neighbours inside the cutoff)
\* and the factor on its two-body part
ZeroF12 == [tag |-> "zero", r12 |-> Zero3, r13 |-> << >>, two |-> << 0, 1 >>]
JunkF12 == [tag |-> "junk", r12 |-> Zero3, r13 |-> << >>, two |-> << 0, 1 >>]

\* HALF, the factor on the two-body force, the two-body energy and the
\* three-body energy of a partial-force entry
HALF == << 1, 2 >>

ValF12(r12, r13) == [tag |-> "val", r12 |-> r12, r13 |-> r13, two |-> HALF]

\* what cudaMalloc may leave in a fresh partial-force buffer (the same in
\* every entry)
UninitF12 == { ZeroF12, JunkF12 }

\* SW2::SW2: capacity and size of the partial-force buffers
NumOfNeighbors == IF SwMN < SwMaxSlots THEN SwMN ELSE SwMaxSlots
F12Size == SwAtomN * NumOfNeighbors

SwIdle ==
    /\ atom = [x |-> Chain(1, 0), NN |-> [n \in SwAtoms |-> 0],
               NL |-> [i \in 0 .. SwMN * SwAtomN - 1 |-> 0]]
    /\ sw2 = [N1 |-> 0, N2 |-> 0]
    /\ f12 = << >>
    /\ pe = << >>
    /\ swPc = "idle"
    /\ swLog = [fresh |-> FALSE, before |-> << >>]

\* the state after SW2::SW2 and the first neighbour-list build
InitSw ==
    /\ \E x \in SwConfigs :
          LET nb == BuildNeighbor(x)
          IN  atom = [x |-> x, NN |-> nb.NN, NL |-> nb.NL]
    /\ \E n2 \in { SwAtomN - 1, SwAtomN } : sw2 = [N1 |-> 0, N2 |-> n2]
    /\ \E junk \in UninitF12 : f12 = [idx \in 0 .. F12Size - 1 |-> junk]
    /\ pe = [n \in SwAtoms |-> << >>]
    /\ swPc = "idle"
    /\ swLog = [fresh |-> FALSE, before |-> f12]

\* the integrator moves the atoms between two force evaluations
AtomMove ==
    /\ swPc = "idle"
    /\ \E x \in SwConfigs : x # atom.x /\ atom' = [atom EXCEPT !.x = x]
    /\ swLog' = [swLog EXCEPT !.fresh = FALSE]
    /\ UNCHANGED << sw2, f12, pe, swPc >>

\* the neighbour list is rebuilt from the current positions
NeighborRebuild ==
    /\ swPc = "idle"
    /\ LET nb == BuildNeighbor(atom.x)
       IN  /\ (nb.NN # atom.NN \/ nb.NL # atom.NL)
           /\ atom' = [atom EXCEPT !.NN = nb.NN, !.NL = nb.NL]
    /\ swLog' = [swLog EXCEPT !.fresh = FALSE]
    /\ UNCHANGED << sw2, f12, pe, swPc >>

\* the slots gpu_set_f12_to_zero writes for atom n1
ResetSlotsMutant(neighbor_number) == 0 .. neighbor_number - 2
ResetSlots(neighbor_number) == 0 .. neighbor_number - 1

\* gpu_set_f12_to_zero: the buffers after the kernel
SetF12ToZero(buf, a, N1, N2) ==
    [idx \in DOMAIN buf |->
        IF \E n1 \in SwAtoms :
             /\ n1 >= N1 /\ n1 < N2
             /\ \E i1 \in ResetSlots(a.NN[n1]) : idx = i1 * SwAtomN + n1
        THEN ZeroF12
        ELSE buf[idx]]

\* the displacement of atom n from atom n1 (dev_apply_mic leaves it alone:
\* the box of these runs is not periodic)
Displacement(a, n1, n) == Sub3(a.x[n], a.x[n1])

\* the test that skips a neighbour at or beyond the cutoff
BeyondCutoffMutant(r) == Norm2(r) > SwRc2
BeyondCutoff(r) == Norm2(r) >= SwRc2

\* the test that skips a second neighbour at or beyond the cutoff
SecondBeyondCutoffMutant(r) == Norm2(r) > SwRc2
SecondBeyondCutoff(r) == Norm2(r) >= SwRc2

\* the test that skips the neighbour of the outer loop in the inner loop
SameNeighborMutant(n3, n2) == FALSE
SameNeighbor(n3, n2) == n3 = n2

\* the inner loop of gpu_find_force_sw3_partial for neighbour slot i1 of
\* atom n1: the displacements of the second neighbours that contribute
RECURSIVE ThreeBody(_, _, _, _)
ThreeBody(a, n1, n2, i2) ==
    IF i2 >= a.NN[n1] THEN << >>
    ELSE LET n3  == a.NL[n1 + SwAtomN * i2]
             r13 == Displacement(a, n1, n3)
         IN  (IF SameNeighbor(n3, n2) \/ SecondBeyondCutoff(r13)
              THEN << >> ELSE << r13 >>)
             \o ThreeBody(a, n1, n2, i2 + 1)

\* the value gpu_find_force_sw3_partial stores for slot i1 of atom n1
PartialForce(a, n1, i1) ==
    LET n2  == a.NL[i1 * SwAtomN + n1]
        r12 == Displacement(a, n1, n2)
    IN  ValF12(r12, ThreeBody(a, n1, n2, 0))

\* gpu_find_force_sw3_partial: the buffers after the kernel
FindForcePartial(buf, a, N1, N2) ==
    [idx \in DOMAIN buf |->
        LET n1 == idx % SwAtomN
            i1 == idx \div SwAtomN
        IN  IF /\ n1 >= N1 /\ n1 < N2
               /\ i1 < a.NN[n1]
               /\ ~BeyondCutoff(Displacement(a, n1, a.NL[idx]))
            THEN PartialForce(a, n1, i1)
            ELSE buf[idx]]

\* the energy terms gpu_find_force_sw3_partial adds up for atom n1, in loop
\* order: one two-body term per neighbour inside the cutoff, followed by
\* one three-body term per contributing second neighbour; r holds the
\* displacements the term is computed from and w the factor on it
RECURSIVE EnergyTerms(_, _, _)
EnergyTerms(a, n1, i1) ==
    IF i1 >= a.NN[n1] THEN << >>
    ELSE LET n2  == a.NL[i1 * SwAtomN + n1]
             r12 == Displacement(a, n1, n2)
             th  == ThreeBody(a, n1, n2, 0)
         IN  (IF BeyondCutoff(r12) THEN << >>
              ELSE << [r |-> << r12 >>, w |-> HALF] >>
                   \o [k \in 1 .. Len(th) |->
                          [r |-> << r12, th[k] >>, w |-> HALF]])
             \o EnergyTerms(a, n1, i1 + 1)

\* SW2::compute, first launch: gpu_set_f12_to_zero
SW_reset ==
    /\ swPc = "idle"
    /\ ~swLog.fresh
    /\ f12' = SetF12ToZero(f12, atom, sw2.N1, sw2.N2)
    /\ swPc' = "reset_done"
    /\ swLog' = [swLog EXCEPT !.before = f12]
    /\ UNCHANGED << atom, sw2, pe >>

\* SW2::compute, second launch: gpu_find_force_sw3_partial
SW_partial ==
    /\ swPc = "reset_done"
    /\ f12' = FindForcePartial(f12, atom, sw2.N1, sw2.N2)
    /\ pe' = [n \in SwAtoms |->
                IF n >= sw2.N1 /\ n < sw2.N2
                THEN EnergyTerms(atom, n, 0) ELSE pe[n]]
    /\ swPc' = "partial_done"
    /\ UNCHANGED << atom, sw2, swLog >>

\* SW2::compute, last call: find_properties_many_body reads the buffers
SW_properties ==
    /\ swPc = "partial_done"
    /\ swPc' = "idle"
    /\ swLog' = [swLog EXCEPT !.fresh = TRUE]
    /\ UNCHANGED << atom, sw2, f12, pe >>

-----------------------------------------------------------------------------
(*              S W 2 :   c a p a c i t y   o f   t h e   b u f f e r s    *)

\* bounds of the capacity model
CapAtomN == 2    \* largest atom->N
CapExcess == 1   \* atom->neighbor.MN ranges up to SwMaxSlots + CapExcess

\* SW2::SW2: num_of_neighbors and the number of entries of each buffer
CapNumOfNeighbors(MN) == IF MN < SwMaxSlots THEN MN ELSE SwMaxSlots
CapAlloc(N, MN) == N * CapNumOfNeighbors(MN)

\* neighbour counts the list builder can leave for one atom: none, one, or
\* close to the capacity MN of the list
CapCounts(MN) == { 0, 1 } \cup (SwMaxSlots - 1 .. MN)

\* which neighbour slots hold a neighbour at or beyond the force cutoff
CapFar(pattern, i1) ==
    CASE pattern = "none" -> FALSE
      [] pattern = "all"  -> TRUE
      [] pattern = "odd"  -> i1 % 2 = 1

\* the indices gpu_set_f12_to_zero writes
ResetIndices(N, N1, N2, NN) ==
    UNION { { i1 * N + n1 : i1 \in ResetSlots(NN[n1]) } : n1 \in N1 .. N2 - 1 }

\* the indices gpu_find_force_sw3_partial writes
PartialIndices(N, N1, N2, NN, pattern) ==
    UNION { { i1 * N + n1 : i1 \in { k \in 0 .. NN[n1] - 1 : ~CapFar(pattern, k) } }
            : n1 \in N1 .. N2 - 1 }

CapIdle ==
    cap = [N |-> 0, MN |-> 0, NN |-> << >>, far |-> "none",
           size |-> 0, written |-> {}, pc |-> "idle"]

\* the state after SW2::SW2 and the first neighbour-list build
InitCap ==
    \E N \in 1 .. CapAtomN, MN \in SwMaxSlots - 1 .. SwMaxSlots + CapExcess :
    \E NN \in [0 .. N - 1 -> CapCounts(MN)], far \in { "none", "all", "odd" } :
        cap = [N |-> N, MN |-> MN, NN |-> NN, far |-> far,
               size |-> CapAlloc(N, MN), written |-> {}, pc |-> "idle"]

\* the neighbour list is rebuilt between two force evaluations
Cap_rebuild ==
    /\ cap.pc = "partial_done"
    /\ \E NN \in [0 .. cap.N - 1 -> CapCounts(cap.MN)] :
          cap' = [cap EXCEPT !.NN = NN, !.written = {}, !.pc = "idle"]

\* SW2::compute, first launch (N1 = 0, N2 = N)
Cap_reset ==
    /\ cap.pc = "idle"
    /\ cap' = [cap EXCEPT !.written = ResetIndices(cap.N, 0, cap.N, cap.NN),
                          !.pc = "reset_done"]

\* SW2::compute, second launch
Cap_partial ==
    /\ cap.pc = "reset_done"
    /\ cap' = [cap EXCEPT
                 !.written = PartialIndices(cap.N, 0, cap.N, cap.NN, cap.far),
                 !.pc = "partial_done"]

-----------------------------------------------------------------------------
(*                 S W 2 :   c o n s t r u c t i o n                       *)

\* the numbers of a parameter file: token i (from 0) is 1 + (i % m)
SwFileModuli == { 5, 7 }

\* the number of values a complete file holds for num_of_types species
SwFileLength(nt) ==
    CASE nt = 1 -> 8
      [] nt = 2 -> 5 * 3 + 2 * 8
      [] nt = 3 -> 5 * 9 + 2 * 27

\* a parameter file: its numeric tokens, and the position (from 0) of a
\* token that is not a number (-1: none)
SwFile(m, len, bad) ==
    [tokens |-> [i \in 1 .. len |-> 1 + ((i - 1) % m)], bad |-> bad]

SwFiles(nt) ==
    { SwFile(m, SwFileLength(nt), -1) : m \in SwFileModuli }
    \cup { SwFile(m, t, -1) : m \in SwFileModuli, t \in 0 .. SwFileLength(nt) - 1 }
    \cup { SwFile(m, SwFileLength(nt), t) :
             m \in SwFileModuli, t \in 0 .. SwFileLength(nt) - 1 }

\* fscanf with k "%lf" conversions at token position pos: the number of
\* values converted
RECURSIVE Converted(_, _, _)
Converted(file, pos, k) ==
    IF k = 0 \/ pos >= Len(file.tokens) \/ pos = file.bad THEN 0
    ELSE 1 + Converted(file, pos + 1, k - 1)

\* the value fscanf returns: EOF (-1) when the input ends before the first
\* conversion
Fscanf(file, pos, k) ==
    LET c == Converted(file, pos, k)
    IN  IF c = 0 /\ pos >= Len(file.tokens) THEN -1 ELSE c

\* PRINT_SCANF_ERROR(count, n, text) ends the program
ScanfError(count, n) == count # n

\* the fscanf calls of initialize_sw_1985_1/2/3, in order: the number of
\* conversions of each
TwoBodyReadsMutant(nt) == IF nt = 2 THEN 2 ELSE nt * nt
TwoBodyReads(nt) == IF nt = 2 THEN 3 ELSE nt * nt
ReadWidths(nt) ==
    IF nt = 1 THEN << 8 >>
    ELSE [i \in 1 .. TwoBodyReads(nt) + nt * nt * nt |->
            IF i <= TwoBodyReads(nt) THEN 5 ELSE 2]

\* the reads made until the first PRINT_SCANF_ERROR: the value each fscanf
\* returned and the values it stored
RECURSIVE ReadRows(_, _, _, _)
ReadRows(file, pos, widths, i) ==
    IF i > Len(widths) THEN << >>
    ELSE LET c   == Converted(file, pos, widths[i])
             row == [count |-> Fscanf(file, pos, widths[i]),
                     vals |-> SubSeq(file.tokens, pos + 1, pos + c)]
         IN  IF ScanfError(row.count, widths[i]) THEN << row >>
             ELSE << row >> \o ReadRows(file, pos + c, widths, i + 1)

SwTypes(nt) == 0 .. nt - 1

\* the row of two-body values (A, B, a, sigma, gamma) that the table entry
\* [n1][n2] is set from
TwoBodyRow(nt, rows, n1, n2) ==
    CASE nt = 1 -> << rows[1].vals[1] * rows[1].vals[3], rows[1].vals[4],
                      rows[1].vals[5], rows[1].vals[7], rows[1].vals[6] >>
      [] nt = 2 -> rows[n1 + n2 + 1].vals
      [] nt = 3 -> rows[3 * n1 + n2 + 1].vals

\* the row of three-body values (lambda, cos0) of entry [n1][n2][n3]
ThreeBodyRow(nt, rows, n1, n2, n3) ==
    CASE nt = 1 -> << rows[1].vals[1] * rows[1].vals[2], rows[1].vals[8] >>
      [] nt = 2 -> rows[3 + 4 * n1 + 2 * n2 + n3 + 1].vals
      [] nt = 3 -> rows[9 + 9 * n1 + 3 * n2 + n3 + 1].vals

\* sw2_para after initialize_sw_1985_nt
SwPara(nt, rows) ==
    LET pair(k) == [t \in SwTypes(nt) \X SwTypes(nt) |->
                       TwoBodyRow(nt, rows, t[1], t[2])[k]]
        triple(k) == [t \in SwTypes(nt) \X SwTypes(nt) \X SwTypes(nt) |->
                       ThreeBodyRow(nt, rows, t[1], t[2], t[3])[k]]
    IN  [A |-> pair(1), B |-> pair(2), a |-> pair(3), sigma |-> pair(4),
         gamma |-> pair(5),
         rc |-> [t \in SwTypes(nt) \X SwTypes(nt) |->
                   TwoBodyRow(nt, rows, t[1], t[2])[4]
                   * TwoBodyRow(nt, rows, t[1], t[2])[3]],
         lambda |-> triple(1), cos0 |-> triple(2)]

CtorIdle ==
    swCtor = [pc |-> "new", num_of_types |-> 1, file |-> SwFile(5, 0, -1),
              reads |-> << >>, para |-> << >>, allocated |-> FALSE]

\* a potential file is about to be read
InitCtor ==
    \E nt \in 1 .. 3 : \E file \in SwFiles(nt) :
        swCtor = [pc |-> "new", num_of_types |-> nt, file |-> file,
                  reads |-> << >>, para |-> << >>, allocated |-> FALSE]

\* SW2::SW2
SW2_SW2 ==
    /\ swCtor.pc = "new"
    /\ LET nt     == swCtor.num_of_types
           widths == ReadWidths(nt)
       IN  \E rows \in { ReadRows(swCtor.file, 0, widths, 1) } :
           LET counts == [i \in 1 .. Len(rows) |-> rows[i].count]
           IN  IF ScanfError(rows[Len(rows)].count, widths[Len(rows)])
               THEN swCtor' = [swCtor EXCEPT !.pc = "error", !.reads = counts]
               ELSE swCtor' = [swCtor EXCEPT !.pc = "constructed",
                                             !.reads = counts,
                                             !.para = SwPara(nt, rows),
                                             !.allocated = TRUE]

-----------------------------------------------------------------------------
(*              B l o c k   t r e e   r e d u c t i o n                    *)

\* gpu_reduce_xdotn, gpu_reduce_jmn, gpu_bin_reduce and gpu_find_vac share
\* one scheme: every thread of a block sums the elements tid, tid + blockDim,
\* ... of the block's segment into its shared element, then the block halves
\* the active range level by level, with __syncthreads() between the levels.
\* One block and one of its shared arrays are modelled; the threads are
\* interleaved step by step, a shared read and the write that follows it
\* being separate steps.

\* bounds: blockDim.x = 2 ^ RedLogBlock, and the segment is up to RedExcess
\* elements longer than the block
RedLogBlock == 2
RedExcess == 5
RedJunkValues == 2

RECURSIVE Pow2(_)
Pow2(n) == IF n <= 0 THEN 1 ELSE 2 * Pow2(n - 1)

RedBlockDim == Pow2(RedLogBlock)
RedThreads == 0 .. RedBlockDim - 1

\* int / int of the device code: the quotient truncated towards zero
CDiv(a, b) == IF a >= 0 THEN a \div b ELSE -((-a) \div b)

\* element n of the segment; distinct powers of two, so that a sum tells
\* which elements went into it
SegmentValue(n) == Pow2(n)

\* number_of_patches / number_of_rounds
NumberOfPatches(len) == CDiv(len - 1, RedBlockDim) + 1

\* what thread tid has in its shared element after the patch loop
PatchSum(tid, len) ==
    SumTo([patch \in 0 .. NumberOfPatches(len) - 1 |->
              LET n == tid + patch * RedBlockDim
              IN  IF n < len THEN SegmentValue(n) ELSE 0],
          NumberOfPatches(len))

\* __syncthreads(): thread t leaves the barrier once every thread of the
\* block has arrived at it
BarrierReachedMutant(t) == TRUE
BarrierReached(t) ==
    \A u \in RedThreads :
        \/ red.epoch[u] > red.epoch[t]
        \/ red.epoch[u] = red.epoch[t] /\ red.pc[u] = "sync"

\* thread t makes the shared accesses new (pairs of index and "r" or "w")
\* while another thread, not separated from it by a barrier, holds an access
\* to the same element, one of the two being a write
Conflict(t, new) ==
    \E u \in RedThreads \ { t } :
        /\ red.epoch[u] = red.epoch[t]
        /\ \E a \in red.acc[u], b \in new :
              a[1] = b[1] /\ (a[2] = "w" \/ b[2] = "w")

RedIdle ==
    red = [len |-> 0, s |-> << >>, pc |-> << >>, off |-> << >>,
           tmp |-> << >>, epoch |-> << >>, acc |-> << >>,
           out |-> << >>, race |-> FALSE]

\* a block is launched on a segment of len elements; shared memory holds
\* whatever the previous block left there
InitRed ==
    \E len \in 0 .. RedBlockDim + RedExcess, junk \in 1 .. RedJunkValues :
        red = [len   |-> len,
               s     |-> [t \in RedThreads |-> 1 - 2 * junk],
               pc    |-> [t \in RedThreads |-> "load"],
               off   |-> [t \in RedThreads |-> 2 * RedBlockDim],
               tmp   |-> [t \in RedThreads |-> 0],
               epoch |-> [t \in RedThreads |-> 0],
               acc   |-> [t \in RedThreads |-> {}],
               out   |-> << >>,
               race  |-> FALSE]

\* the patch loop of thread t, up to the first __syncthreads()
Red_load(t) ==
    /\ red.pc[t] = "load"
    /\ LET new == { << t, "w" >> } IN
       red' = [red EXCEPT !.s[t] = PatchSum(t, red.len),
                          !.acc[t] = new,
                          !.race = @ \/ Conflict(t, new),
                          !.off[t] = RedBlockDim,
                          !.pc[t] = "sync"]

\* thread t leaves __syncthreads() and tests the loop condition offset > 0
\* (blockDim.x >> 1 the first time, offset >>= 1 afterwards)
Red_sync(t) ==
    /\ red.pc[t] = "sync"
    /\ BarrierReached(t)
    /\ LET offset == red.off[t] \div 2 IN
       red' = [red EXCEPT !.epoch[t] = @ + 1,
                          !.acc[t] = {},
                          !.off[t] = offset,
                          !.pc[t] = IF offset > 0 THEN "level" ELSE "final"]

\* if (tid < offset): thread t reads s[tid] and s[tid + offset]
Red_level(t) ==
    /\ red.pc[t] = "level"
    /\ IF t < red.off[t]
       THEN LET new == { << t, "r" >>, << t + red.off[t], "r" >> } IN
            red' = [red EXCEPT !.tmp[t] = red.s[t] + red.s[t + red.off[t]],
                               !.acc[t] = @ \cup new,
                               !.race = @ \/ Conflict(t, new),
                               !.pc[t] = "write"]
       ELSE red' = [red EXCEPT !.pc[t] = "sync"]

\* ... and stores the sum in s[tid], then goes to __syncthreads()
Red_write(t) ==
    /\ red.pc[t] = "write"
    /\ LET new == { << t, "w" >> } IN
       red' = [red EXCEPT !.s[t] = red.tmp[t],
                          !.acc[t] = @ \cup new,
                          !.race = @ \/ Conflict(t, new),
                          !.pc[t] = "sync"]

\* if (tid == 0): thread 0 writes s[0] to the block's output
Red_final(t) ==
    /\ red.pc[t] = "final"
    /\ IF t = 0
       THEN LET new == { << 0, "r" >> } IN
            red' = [red EXCEPT !.out = << red.s[0] >>,
                               !.acc[t] = @ \cup new,
                               !.race = @ \/ Conflict(t, new),
                               !.pc[t] = "done"]
       ELSE red' = [red EXCEPT !.pc[t] = "done"]

-----------------------------------------------------------------------------
(*          L i f e t i m e   o f   t h e   d e v i c e   b u f f e r s    *)

\* the buffers VAC and MODAL_ANALYSIS get from cudaMalloc / cudaMallocManaged
VacBuffers == { "vx", "vy", "vz", "vac_x", "vac_y", "vac_z", "mass" }
MaBuffers == { "eig", "f", "bin_count", "bin_sum", "xdot", "xdotn", "jm",
               "jmn", "bin_out" }

\* no buffer was ever allocated
MemIdle ==
    mem = [buf |-> [b \in VacBuffers \cup MaBuffers |->
                       [state |-> "none", by |-> "", allocs |-> 0, frees |-> 0]],
           faults |-> {}]

\* one cudaMalloc, cudaFree or access of buffer op[2], made by function who
MemStep(m, op, who) ==
    LET b == op[2]
        s == m.buf[b]
    IN  CASE op[1] = "alloc" ->
               [buf |-> [m.buf EXCEPT ![b] = [s EXCEPT !.state = "live",
                                                       !.allocs = @ + 1]],
                faults |-> IF s.state = "live"
                           THEN m.faults \cup { << "leaked", b >> }
                           ELSE m.faults]
          [] op[1] = "free" ->
               IF s.state = "live"
               THEN [buf |-> [m.buf EXCEPT ![b] = [s EXCEPT !.state = "freed",
                                                            !.by = who,
                                                            !.frees = @ + 1]],
                     faults |-> m.faults]
               ELSE [buf |-> [m.buf EXCEPT ![b] = [s EXCEPT !.frees = @ + 1]],
                     faults |-> m.faults \cup
                        { << IF s.state = "freed" THEN "freed twice"
                             ELSE "freed unallocated", b >> }]
          [] OTHER ->
               [buf |-> m.buf,
                faults |-> IF s.state = "live" THEN m.faults
                           ELSE m.faults \cup
                                  { << IF s.state = "freed" THEN "used after free"
                                       ELSE "used unallocated", b >> }]

RECURSIVE MemRun(_, _, _)
MemRun(m, ops, who) ==
    IF ops = << >> THEN m
    ELSE MemRun(MemStep(m, Head(ops), who), Tail(ops), who)

Allocs(bs) == [i \in 1 .. Len(bs) |-> << "alloc", bs[i] >>]
Frees(bs) == [i \in 1 .. Len(bs) |-> << "free", bs[i] >>]
Uses(bs) == [i \in 1 .. Len(bs) |-> << "use", bs[i] >>]

\* VAC::preprocess: the ring and the accumulators, then the mass copy
VacPreprocessOps(o) ==
    IF o.compute_dos = 0 /\ o.compute_sdc = 0 THEN << >>
    ELSE IF Simultaneous(o) THEN << >>
    ELSE Allocs(<< "vx", "vy", "vz", "vac_x", "vac_y", "vac_z" >>)
         \o Uses(<< "vac_x", "vac_y", "vac_z" >>)
         \o (IF o.compute_dos # 0 /\ ~NyquistViolated(o)
             THEN Allocs(<< "mass" >>) \o Uses(<< "mass" >>)
             ELSE << >>)

\* VAC::process: gpu_copy_velocity, then gpu_find_vac
VacProcessOps(o, step) ==
    IF ~(o.compute_dos # 0 \/ o.compute_sdc # 0) THEN << >>
    ELSE IF VacNotSampled(step, o.sample_interval) THEN << >>
    ELSE Uses(<< "vx", "vy", "vz" >>)
         \o (IF WindowFull(SampleStep(step, o.sample_interval), o.Nc)
             THEN (IF o.compute_dos # 0 THEN Uses(<< "mass" >>) ELSE << >>)
                  \o Uses(<< "vx", "vy", "vz", "vac_x", "vac_y", "vac_z" >>)
             ELSE << >>)

\* the test that guards cudaFree(mass) in VAC::postprocess
VacFreesMassMutant(o) == TRUE
VacFreesMass(o) == o.compute_dos # 0

\* VAC::postprocess: normalisation and output, then the frees
VacPostprocessOps(o) ==
    IF ~(o.compute_dos # 0 \/ o.compute_sdc # 0) THEN << >>
    ELSE Uses(<< "vac_x", "vac_y", "vac_z" >>)
         \o Frees(<< "vac_x", "vac_y", "vac_z", "vx", "vy", "vz" >>)
         \o (IF VacFreesMass(o) THEN Frees(<< "mass" >>) ELSE << >>)

\* MODAL_ANALYSIS::preprocess
MaPreprocessOps(m) ==
    IF m.compute = 0 THEN << >>
    ELSE Allocs(<< "eig" >>)
         \o (IF OpenFailed(m) THEN << >>
             ELSE (IF m.f_flag # 0
                   THEN Allocs(<< "f" >>) \o Uses(<< "f" >>)
                        \o Allocs(<< "bin_count" >>)
                        \o Uses(<< "bin_count", "f" >>)
                        \o Allocs(<< "bin_sum" >>)
                        \o Uses(<< "bin_sum", "bin_count" >>)
                        \o Frees(<< "f" >>)
                   ELSE << >>)
                  \o Uses(<< "eig" >>)
                  \o Allocs(<< "xdot", "xdotn", "jm", "jmn", "bin_out" >>)
                  \o (IF m.method = HNEMA_METHOD
                      THEN Uses(<< "jmn" >>) ELSE << >>))

\* MODAL_ANALYSIS::process
MaProcessOps(m, step) ==
    IF m.compute = 0 THEN << >>
    ELSE IF MaNotSampled(step, m.sample_interval) THEN << >>
    ELSE Uses(<< "eig", "xdotn", "xdot", "jmn" >>)
         \o (IF HnemaSkipsOutput(m, step) THEN << >>
             ELSE Uses(<< "jmn", "jm" >>)
                  \o (IF m.f_flag # 0
                      THEN Uses(<< "bin_count", "bin_sum" >>) ELSE << >>)
                  \o Uses(<< "jm", "bin_out" >>)
                  \o (IF m.method = HNEMA_METHOD
                      THEN Uses(<< "jmn" >>) ELSE << >>))

\* MODAL_ANALYSIS::postprocess
MaPostprocessOps(m) ==
    IF m.compute = 0 THEN << >>
    ELSE Frees(<< "eig", "xdot", "xdotn", "jm", "jmn", "bin_out" >>)
         \o (IF m.f_flag # 0
             THEN Frees(<< "bin_count", "bin_sum" >>) ELSE << >>)

\* MODAL_ANALYSIS::postprocess: the members keep their values
MA_postprocess ==
    /\ maPhase = "running"
    /\ maPhase' = "done"
    /\ UNCHANGED << ma, maStep, maFile, maLog >>

Life_VacPreprocess ==
    /\ VAC_preprocess
    /\ mem' = MemRun(mem, VacPreprocessOps(vacObj), "preprocess")
Life_VacProcess ==
    /\ VacProcessStep
    /\ mem' = MemRun(mem, VacProcessOps(vacObj, vacStep), "process")
Life_VacPostprocess ==
    /\ VAC_postprocess
    /\ mem' = MemRun(mem, VacPostprocessOps(vacObj), "postprocess")
Life_MaPreprocess ==
    /\ MA_preprocess
    /\ mem' = MemRun(mem, MaPreprocessOps(ma), "preprocess")
Life_MaProcess ==
    /\ MaProcessStep
    /\ mem' = MemRun(mem, MaProcessOps(ma, maStep), "process")
Life_MaPostprocess ==
    /\ MA_postprocess
    /\ mem' = MemRun(mem, MaPostprocessOps(ma), "postprocess")

-----------------------------------------------------------------------------
(*              I n i t i a l   v e l o c i t i e s                        *)

\* bounds of the velocity model
ViMaxScale == 2      \* largest lattice constant of the configurations
ViMaxMass == 2       \* largest atomic mass
ViVelChoices == 4    \* outcomes of get_random_velocities that are tried

\* atom->initial_temperature, and 3.0 * K_B in the temperature unit of the
\* model
ViTemperature == 1
ThreeKB == 1

RSub(a, b) == RAdd(a, RMul(Rat(-1), b))

\* the sum f[0] + ... + f[n-1] of doubles, in loop order
RECURSIVE RSumTo(_, _)
RSumTo(f, n) == IF n <= 0 THEN Rat(0) ELSE RAdd(RSumTo(f, n - 1), f[n - 1])

\* initial configurations: one atom, two atoms, three atoms on a line along
\* x, three atoms on a diagonal line, three atoms in an L, four atoms off
\* one plane
ViShapes ==
    << << << 1, 2, 0 >> >>,
       << << 0, 0, 0 >>, << 2, 0, 0 >> >>,
       << << 0, 0, 0 >>, << 1, 0, 0 >>, << 2, 0, 0 >> >>,
       << << 0, 0, 0 >>, << 1, 1, 0 >>, << 2, 2, 0 >> >>,
       << << 0, 0, 0 >>, << 3, 0, 0 >>, << 0, 3, 0 >> >>,
       << << 0, 0, 0 >>, << 4, 0, 0 >>, << 0, 4, 0 >>, << 0, 0, 4 >> >> >>

ViPositions(shape, scale) ==
    [n \in 0 .. Len(ViShapes[shape]) - 1 |->
        << scale * ViShapes[shape][n + 1][1], scale * ViShapes[shape][n + 1][2],
           scale * ViShapes[shape][n + 1][3] >>]

\* get_random_velocities: outcome k, every component one of -1, 0, 1
RandomVelocities(N, k) ==
    [n \in 0 .. N - 1 |->
        << Rat(((n + k) % 3) - 1), Rat(((2 * n + k) % 3) - 1),
           Rat(((n * k + 1) % 3) - 1) >>]

\* zero_linear_momentum
ZeroLinearMomentum(N, m, v) ==
    LET p(c) == RSumTo([n \in 0 .. N - 1 |->
                          RDiv(RMul(Rat(m[n]), v[n][c]), Rat(N))], N)
    IN  [n \in 0 .. N - 1 |->
            << RSub(v[n][1], RDiv(p(1), Rat(m[n]))),
               RSub(v[n][2], RDiv(p(2), Rat(m[n]))),
               RSub(v[n][3], RDiv(p(3), Rat(m[n]))) >>]

\* get_center
GetCenter(N, m, x) ==
    LET mass_total == RSumTo([i \in 0 .. N - 1 |-> Rat(m[i])], N)
        r(c) == RSumTo([i \in 0 .. N - 1 |-> Rat(x[i][c] * m[i])], N)
    IN  << RDiv(r(1), mass_total), RDiv(r(2), mass_total),
           RDiv(r(3), mass_total) >>

\* dx, dy, dz of atom i
FromCenter(r0, x, i) ==
    << RSub(Rat(x[i][1]), r0[1]), RSub(Rat(x[i][2]), r0[2]),
       RSub(Rat(x[i][3]), r0[3]) >>

\* get_angular_momentum
GetAngularMomentum(N, r0, m, x, v) ==
    LET d(i) == FromCenter(r0, x, i)
        l(a, b) == RSumTo([i \in 0 .. N - 1 |->
                      RMul(Rat(m[i]), RSub(RMul(d(i)[a], v[i][b]),
                                           RMul(d(i)[b], v[i][a])))], N)
    IN  << l(2, 3), l(3, 1), l(1, 2) >>

\* get_inertia
GetInertia(N, r0, m, x) ==
    LET d(i) == FromCenter(r0, x, i)
        diag(a, b) == RSumTo([i \in 0 .. N - 1 |->
                         RMul(Rat(m[i]), RAdd(RMul(d(i)[a], d(i)[a]),
                                              RMul(d(i)[b], d(i)[b])))], N)
        off(a, b) == RSumTo([i \in 0 .. N - 1 |->
                         RMul(Rat(-m[i]), RMul(d(i)[a], d(i)[b]))], N)
    IN  << << diag(2, 3), off(1, 2), off(1, 3) >>,
           << off(1, 2), diag(1, 3), off(2, 3) >>,
           << off(1, 3), off(2, 3), diag(1, 2) >> >>

\* a * b - c * d
Det2(a, b, c, d) == RSub(RMul(a, b), RMul(c, d))

\* get_angular_velocity: the matrix inverse[][] before the division
Adjugate(I) ==
    << << Det2(I[2][2], I[3][3], I[2][3], I[3][2]),
          RMul(Rat(-1), Det2(I[1][2], I[3][3], I[1][3], I[3][2])),
          Det2(I[1][2], I[2][3], I[1][3], I[2][2]) >>,
       << RMul(Rat(-1), Det2(I[2][1], I[3][3], I[2][3], I[3][1])),
          Det2(I[1][1], I[3][3], I[1][3], I[3][1]),
          RMul(Rat(-1), Det2(I[1][1], I[2][3], I[1][3], I[2][1])) >>,
       << Det2(I[2][1], I[3][2], I[2][2], I[3][1]),
          RMul(Rat(-1), Det2(I[1][1], I[3][2], I[1][2], I[3][1])),
          Det2(I[1][1], I[2][2], I[1][2], I[2][1]) >> >>

\* get_angular_velocity: determinant
Determinant(I) ==
    LET t(a, b, c) == RMul(RMul(a, b), c)
    IN  RSub(RSub(RSub(RAdd(RAdd(t(I[1][1], I[2][2], I[3][3]),
                                 t(I[1][2], I[2][3], I[3][1])),
                            t(I[1][3], I[2][1], I[3][2])),
                       t(I[1][1], I[2][3], I[3][2])),
                  t(I[1][2], I[2][1], I[3][3])),
             t(I[3][1], I[2][2], I[1][3]))

\* get_angular_velocity: inverse[i][j] /= determinant
OverDeterminantMutant(entry, determinant) ==
    IF determinant = Rat(0) THEN entry ELSE RDiv(entry, determinant)
OverDeterminant(entry, determinant) == RDiv(entry, determinant)

\* get_angular_velocity: w = inv(I) * L
GetAngularVelocity(I, L) ==
    LET adj == Adjugate(I)
        determinant == Determinant(I)
        inverse(i, j) == OverDeterminant(adj[i][j], determinant)
        w(i) == RAdd(RAdd(RMul(inverse(i, 1), L[1]), RMul(inverse(i, 2), L[2])),
                     RMul(inverse(i, 3), L[3]))
    IN  << w(1), w(2), w(3) >>

\* zero_angular_momentum: v_i = v_i - w x dr_i
ZeroAngularMomentum(N, w, r0, x, v) ==
    [i \in 0 .. N - 1 |->
        LET d == FromCenter(r0, x, i)
        IN  << RSub(v[i][1], RSub(RMul(w[2], d[3]), RMul(w[3], d[2]))),
               RSub(v[i][2], RSub(RMul(w[3], d[1]), RMul(w[1], d[3]))),
               RSub(v[i][3], RSub(RMul(w[1], d[2]), RMul(w[2], d[1]))) >>]

\* Atom::scale_velocity: the square of factor, which is
\* sqrt(initial_temperature / temperature); the square root is not taken
FactorSquared(N, m, v) ==
    LET sum == RSumTo([n \in 0 .. N - 1 |->
                   RMul(Rat(m[n]),
                        RAdd(RAdd(RMul(v[n][1], v[n][1]), RMul(v[n][2], v[n][2])),
                             RMul(v[n][3], v[n][3])))], N)
        temperature == RDiv(sum, Rat(ThreeKB * N))
    IN  RDiv(Rat(ViTemperature), temperature)

\* a double v times the square root of the double f2: NaN where IEEE
\* arithmetic gives NaN, otherwise the pair of v and f2
TimesSqrt(v, f2) ==
    IF \/ v = RNaN \/ f2 = RNaN \/ (f2[1] < 0)
       \/ (v = Rat(0) /\ ~IsFinite(f2))
       \/ (~IsFinite(v) /\ f2 = Rat(0))
    THEN [v |-> RNaN, f2 |-> RNaN]
    ELSE [v |-> v, f2 |-> f2]

\* the velocities as read from xyz.in, not rescaled
AsGiven(v) == [v |-> v, f2 |-> Rat(1)]

ViNone ==
    [pc |-> "idle", N |-> 0, x |-> << >>, m |-> << >>,
     has_velocity_in_xyz |-> 1, cpu_v |-> << >>, v |-> << >>,
     I |-> << >>, L |-> << >>, determinant |-> RNaN, w |-> << >>]
ViIdle == vi = ViNone

\* the Atom object after the structure file was read: with velocities from
\* the file or without
InitVi ==
    \E shape \in 1 .. Len(ViShapes), scale \in 1 .. ViMaxScale,
       mass \in 1 .. ViMaxMass, has \in 0 .. 1 :
       LET N == Len(ViShapes[shape]) IN
       vi = [ViNone EXCEPT
               !.pc = "start", !.N = N,
               !.x = ViPositions(shape, scale),
               !.m = [n \in 0 .. N - 1 |-> mass],
               !.has_velocity_in_xyz = has,
               !.cpu_v = IF has = 0
                         THEN [n \in 0 .. N - 1 |->
                                 << AsGiven(Rat(0)), AsGiven(Rat(0)), AsGiven(Rat(0)) >>]
                         ELSE [n \in 0 .. N - 1 |->
                                 << AsGiven(Rat(1)), AsGiven(Rat(0)), AsGiven(Rat(-1)) >>]]

\* Atom::initialize_velocity_cpu, called when the file gave no velocities
Atom_initialize_velocity_cpu ==
    /\ vi.pc = "start"
    /\ vi.has_velocity_in_xyz = 0
    /\ \E k \in 1 .. ViVelChoices :
       \E v0 \in { Table(ZeroLinearMomentum(vi.N, vi.m,
                                            RandomVelocities(vi.N, k))) } :
       \E r0 \in { GetCenter(vi.N, vi.m, vi.x) } :
       \E L \in { GetAngularMomentum(vi.N, r0, vi.m, vi.x, v0) } :
       \E I \in { GetInertia(vi.N, r0, vi.m, vi.x) } :
       \E w \in { GetAngularVelocity(I, L) } :
       \E v1 \in { Table(ZeroAngularMomentum(vi.N, w, r0, vi.x, v0)) } :
       \E f2 \in { FactorSquared(vi.N, vi.m, v1) } :
          vi' = [vi EXCEPT
                   !.pc = "cpu_done",
                   !.I = I, !.L = L, !.w = w,
                   !.determinant = Determinant(I),
                   !.cpu_v = [n \in 0 .. vi.N - 1 |->
                                << TimesSqrt(v1[n][1], f2), TimesSqrt(v1[n][2], f2),
                                   TimesSqrt(v1[n][3], f2) >>]]

\* Atom::initialize_velocity after the test of has_velocity_in_xyz: the
\* three cudaMemcpy calls
Atom_initialize_velocity ==
    /\ \/ vi.pc = "cpu_done"
       \/ vi.pc = "start" /\ vi.has_velocity_in_xyz # 0
    /\ vi' = [vi EXCEPT !.pc = "copied", !.v = vi.cpu_v]

-----------------------------------------------------------------------------
(*                        S p e c i f i c a t i o n s                      *)

InitVAC == InitVacObj /\ MaIdle /\ SwIdle /\ CapIdle /\ CtorIdle /\ RedIdle /\ MemIdle /\ ViIdle
NextVAC ==
    \/ VAC_preprocess /\ UNCHANGED notVacVars
    \/ VacProcessStep /\ UNCHANGED notVacVars
    \/ VAC_postprocess /\ UNCHANGED notVacVars
SpecVAC == InitVAC /\ [][NextVAC]_vars

InitMA == VacIdle /\ InitMaObj /\ SwIdle /\ CapIdle /\ CtorIdle /\ RedIdle /\ MemIdle /\ ViIdle
NextMA ==
    \/ MA_preprocess /\ UNCHANGED notMaVars
    \/ MaProcessStep /\ UNCHANGED notMaVars
SpecMA == InitMA /\ [][NextMA]_vars

InitBin == VacIdle /\ InitBinObj /\ SwIdle /\ CapIdle /\ CtorIdle /\ RedIdle /\ MemIdle /\ ViIdle
NextBin == MA_preprocess /\ UNCHANGED notMaVars
SpecBin == InitBin /\ [][NextBin]_vars

InitSW == VacIdle /\ MaIdle /\ InitSw /\ CapIdle /\ CtorIdle /\ RedIdle /\ MemIdle /\ ViIdle
NextSW ==
    \/ AtomMove /\ UNCHANGED notSwVars
    \/ NeighborRebuild /\ UNCHANGED notSwVars
    \/ SW_reset /\ UNCHANGED notSwVars
    \/ SW_partial /\ UNCHANGED notSwVars
    \/ SW_properties /\ UNCHANGED notSwVars
SpecSW == InitSW /\ [][NextSW]_vars

\* the measurement hooks as the driver calls them: both preprocess calls
\* before the run, then both process calls on every step with the same
\* step; one of the two components is configured, the other is switched off
InitGate ==
    /\ \/ InitVacObj /\ MaIdle
       \/ VacIdle /\ InitMaObj
    /\ SwIdle /\ CapIdle /\ CtorIdle /\ RedIdle /\ MemIdle /\ ViIdle
Gate_preprocess == VAC_preprocess /\ MA_preprocess
Gate_process ==
    \E kv \in 1 .. VacVelFields, k \in 1 .. MaAtomStates :
        VAC_process(VelField(kv)) /\ MA_process(k)
NextGate ==
    \/ Gate_preprocess /\ UNCHANGED notGateVars
    \/ Gate_process /\ UNCHANGED notGateVars
SpecGate == InitGate /\ [][NextGate]_vars

InitCapacity == VacIdle /\ MaIdle /\ SwIdle /\ InitCap /\ CtorIdle /\ RedIdle /\ MemIdle /\ ViIdle
NextCapacity ==
    \/ Cap_reset /\ UNCHANGED notCapVars
    \/ Cap_partial /\ UNCHANGED notCapVars
    \/ Cap_rebuild /\ UNCHANGED notCapVars
SpecCapacity == InitCapacity /\ [][NextCapacity]_vars

InitConstruct == VacIdle /\ MaIdle /\ SwIdle /\ CapIdle /\ InitCtor /\ RedIdle /\ MemIdle /\ ViIdle
NextConstruct == SW2_SW2 /\ UNCHANGED notCtorVars
SpecConstruct == InitConstruct /\ [][NextConstruct]_vars

InitReduce == VacIdle /\ MaIdle /\ SwIdle /\ CapIdle /\ CtorIdle /\ InitRed /\ MemIdle /\ ViIdle
NextReduce ==
    \/ \E t \in RedThreads : Red_load(t) /\ UNCHANGED notRedVars
    \/ \E t \in RedThreads : Red_sync(t) /\ UNCHANGED notRedVars
    \/ \E t \in RedThreads : Red_level(t) /\ UNCHANGED notRedVars
    \/ \E t \in RedThreads : Red_write(t) /\ UNCHANGED notRedVars
    \/ \E t \in RedThreads : Red_final(t) /\ UNCHANGED notRedVars
SpecReduce == InitReduce /\ [][NextReduce]_vars

\* one of the two components is configured and run from preprocess to
\* postprocess; the other one is switched off and stays as constructed
InitLife ==
    /\ \/ InitVacObj /\ MaIdle
       \/ VacIdle /\ InitMaObj
    /\ SwIdle /\ CapIdle /\ CtorIdle /\ RedIdle /\ MemIdle /\ ViIdle
NextLife ==
    \/ MaIdle /\ Life_VacPreprocess /\ UNCHANGED << maVars, notLifeVars >>
    \/ MaIdle /\ Life_VacProcess /\ UNCHANGED << maVars, notLifeVars >>
    \/ MaIdle /\ Life_VacPostprocess /\ UNCHANGED << maVars, notLifeVars >>
    \/ VacIdle /\ Life_MaPreprocess /\ UNCHANGED << vacVars, notLifeVars >>
    \/ VacIdle /\ Life_MaProcess /\ UNCHANGED << vacVars, notLifeVars >>
    \/ VacIdle /\ Life_MaPostprocess /\ UNCHANGED << vacVars, notLifeVars >>
SpecLife == InitLife /\ [][NextLife]_vars

InitVelocity ==
    VacIdle /\ MaIdle /\ SwIdle /\ CapIdle /\ CtorIdle /\ RedIdle /\ MemIdle /\ InitVi
NextVelocity ==
    \/ Atom_initialize_velocity_cpu /\ UNCHANGED notViVars
    \/ Atom_initialize_velocity /\ UNCHANGED notViVars
SpecVelocity == InitVelocity /\ [][NextVelocity]_vars

-----------------------------------------------------------------------------
(*                     P r o p e r t i e s :   V A C                       *)

\* the correlation of the snapshot snap with itself along axis ax
SelfCorrelation(o, snap, ax) ==
    SumTo([n \in 0 .. o.N - 1 |->
              (IF o.compute_dos # 0 THEN o.mass[n] ELSE 1)
              * snap[n][ax] * snap[n][ax]], o.N)

\* C1: the k-th sampling call (k = 1, 2, ...) has sample_step = k - 1 and
\* leaves its snapshot in ring-buffer slot (k - 1) mod Nc.
C1_WriteSlot ==
    vacLog.calls > 0 =>
        /\ vacLog.sample_step = vacLog.calls - 1
        /\ vacLog.slot = (vacLog.calls - 1) % vacObj.Nc
        /\ \A n \in 0 .. vacObj.N - 1 :
              vacObj.v[vacLog.slot * vacObj.N + n] = vacLog.snapshot[n]

C1_Witness ==
    /\ vacObj.sample_interval = 2
    /\ vacObj.Nc = 2
    /\ vacLog.calls = 3
    /\ vacLog.slot = 0

\* C2: in every run of the correlation kernel block b adds to lag bin
\* (current_slot - b) mod Nc, the blocks hit pairwise different bins that
\* together are all of 0 .. Nc-1, and every lag bin has received
\* num_time_origins contributions.
C2_LagBins ==
    vacLog.ran =>
        /\ \A b \in 0 .. vacObj.Nc - 1 :
              vacLog.target[b] = (vacLog.slot - b) % vacObj.Nc
        /\ \A b, c \in 0 .. vacObj.Nc - 1 :
              vacLog.target[b] = vacLog.target[c] => b = c
        /\ { vacLog.target[b] : b \in 0 .. vacObj.Nc - 1 } = 0 .. vacObj.Nc - 1
        /\ \A l \in 0 .. vacObj.Nc - 1 :
              vacLog.hits[l] = vacObj.num_time_origins

C2_Witness ==
    /\ vacLog.ran
    /\ vacObj.Nc = 3
    /\ vacLog.slot = 1
    /\ vacObj.num_time_origins >= 2

\* C3: whenever the kernel runs, lag bin 0 grows by the correlation of the
\* snapshot of this call with itself; at the call where the window first
\* fills, vac[0] is exactly that correlation.
C3_ZeroLag ==
    vacLog.ran =>
        /\ \A ax \in 1 .. 3 :
              vacObj.vac[0][ax] = vacLog.vac0_before[ax]
                  + SelfCorrelation(vacObj, vacLog.snapshot, ax)
        /\ vacLog.firstFill =>
              \A ax \in 1 .. 3 :
                 vacObj.vac[0][ax] = SelfCorrelation(vacObj, vacLog.snapshot, ax)

C3_Witness ==
    /\ vacLog.firstFill
    /\ vacObj.Nc >= 2
    /\ vacObj.compute_dos = 1
    /\ vacObj.grouping_method = 0
    /\ vacObj.vac[0][1] > 0

\* C4: the kernel runs on a sampling call exactly when that call is at
\* least the Nc-th one, and after k sampling calls num_time_origins is
\* max(0, k - Nc + 1).
C4_TimeOrigins ==
    vacPhase = "running" =>
        /\ vacLog.calls > 0 => (vacLog.ran <=> vacLog.calls >= vacObj.Nc)
        /\ vacObj.num_time_origins = Max(0, vacLog.calls - vacObj.Nc + 1)

C4_Witness ==
    /\ vacPhase = "running"
    /\ vacObj.Nc = 3
    /\ vacLog.calls = 5
    /\ vacObj.num_time_origins = 3

-----------------------------------------------------------------------------
(*          P r o p e r t i e s :   M O D A L _ A N A L Y S I S            *)

\* the modal velocities xdot of object m when the atoms are in state k
XdotOf(m, k) ==
    CHOOSE xd \in { Table(ReduceXdotn(m, xn)) :
                      xn \in { Table(CalcXdotn(m, AtomVel(k))) } } : TRUE

\* the per-atom modal heat current of atom state k alone, entry by entry
HeatOf(m, k) ==
    CHOOSE h \in { Table([i \in DOMAIN m.jmn |->
                      LET P == m.num_participating
                          q == i \div P
                      IN  HeatTerm(m, xd, AtomVirial(k), i % P,
                                   q % m.num_modes, q \div m.num_modes)]) :
                   xd \in { XdotOf(m, k) } } : TRUE

\* C5: in HNEMA mode jmn is the entry-wise sum of the heat currents of the
\* sampling calls made since the last reset; it is all zeros after
\* preprocess and after every call that wrote output.
C5_HnemaAccumulator ==
    (maPhase = "running" /\ ma.method = HNEMA_METHOD) =>
        /\ \A hs \in { [p \in 1 .. Len(maLog.pending) |->
                          HeatOf(ma, maLog.pending[p])] } :
           \A i \in DOMAIN ma.jmn :
              ma.jmn[i] = SumTo([p \in 0 .. Len(hs) - 1 |-> hs[p + 1][i]], Len(hs))
        /\ (maLog.calls = 0 \/ maLog.wrote) =>
              \A i \in DOMAIN ma.jmn : ma.jmn[i] = 0

C5_Witness ==
    /\ maPhase = "running"
    /\ ma.method = HNEMA_METHOD
    /\ ma.samples_per_output >= 2
    /\ maLog.wrote
    /\ maLog.calls >= 4
    /\ \E l \in 1 .. Len(maFile) : maFile[l][1] # 0
    /\ \A i \in DOMAIN ma.jmn : ma.jmn[i] = 0

\* C6: in GKMA mode, after a sampling call jmn, jm and bin_out are those of
\* the current atom state alone, whatever the earlier calls were.
C6_GkmaOverwrites ==
    (maPhase = "running" /\ ma.method = GKMA_METHOD /\ maLog.calls > 0) =>
        \A h \in { HeatOf(ma, maLog.state) } :
        \A m \in { [ma EXCEPT !.jmn = h] } :
        \A jm \in { Table(ReduceJmn(m)) } :
           /\ ma.jmn = h
           /\ ma.jm = jm
           /\ ma.bin_out = Table(BinOut(m, jm))

C6_Witness ==
    /\ maPhase = "running"
    /\ ma.method = GKMA_METHOD
    /\ maLog.calls >= 2
    /\ ma.num_participating >= 2
    /\ maFile[1] # maFile[Len(maFile) - ma.num_bins + 1]
    /\ \E i \in DOMAIN ma.jmn : ma.jmn[i] # 0

\* C7: a sampling call appends num_bins lines in GKMA mode; in HNEMA mode
\* it appends num_bins lines when step+1 is a multiple of output_interval
\* and nothing otherwise.
C7_OutputLines ==
    (maPhase = "running" /\ maLog.sampled) =>
        /\ ma.method = GKMA_METHOD =>
              Len(maFile) = maLog.fileBefore + ma.num_bins
        /\ ma.method = HNEMA_METHOD =>
              Len(maFile) = maLog.fileBefore
                  + (IF (maLog.step + 1) % ma.output_interval = 0
                     THEN ma.num_bins ELSE 0)

C7_Witness ==
    /\ maPhase = "running"
    /\ ma.method = HNEMA_METHOD
    /\ ma.sample_interval = 2
    /\ ma.output_interval = 3
    /\ maLog.sampled
    /\ maLog.step = 5
    /\ Len(maFile) = ma.num_bins
    /\ ma.num_bins >= 2

-----------------------------------------------------------------------------
(*                     P r o p e r t i e s :   S W 2                       *)

\* the buffer indices in use: atoms of [N1, N2), slots below the atom's
\* current neighbour count
UsedSlots ==
    { i1 * SwAtomN + n1 : n1 \in { n \in SwAtoms : n >= sw2.N1 /\ n < sw2.N2 },
                          i1 \in 0 .. SwMN - 1 } \cap
    { idx \in DOMAIN f12 : (idx \div SwAtomN) < atom.NN[idx % SwAtomN] }

UsedSlotsZero == \A idx \in UsedSlots : f12[idx] = ZeroF12

C10_NoStalePartials ==
    (swPc = "partial_done" \/ (swPc = "idle" /\ swLog.fresh)) =>
        \A idx \in UsedSlots :
            LET n1  == idx % SwAtomN
                i1  == idx \div SwAtomN
                r12 == Sub3(atom.x[atom.NL[idx]], atom.x[n1])
            IN  f12[idx] = IF Norm2(r12) < SwRc2
                           THEN PartialForce(atom, n1, i1)
                           ELSE ZeroF12

C10_Witness ==
    /\ swPc = "partial_done"
    /\ \E idx \in UsedSlots :
          /\ swLog.before[idx].tag = "val"
          /\ f12[idx] = ZeroF12
    /\ \E idx \in UsedSlots :
          /\ swLog.before[idx].tag = "val"
          /\ f12[idx].tag = "val"
          /\ f12[idx] # swLog.before[idx]

-----------------------------------------------------------------------------
(*               P r o p e r t i e s :   S W 2   c a p a c i t y           *)

\* C11: for every neighbour count up to MN, the reset kernel and the
\* partial-force kernel never write a buffer index at or beyond the allocated
\* size N * min(MN, 50)
C11_Original == \A idx \in cap.written : idx < cap.size

-----------------------------------------------------------------------------
(*               P r o p e r t i e s :   S W 2   c u t o f f               *)

\* the neighbour slots of atom n1 that the current list fills
SlotsOf(n1) == 0 .. atom.NN[n1] - 1

\* the displacements of the neighbours of atom n1 at or beyond the cutoff
FarNeighbors(n1) ==
    { Sub3(atom.x[atom.NL[i1 * SwAtomN + n1]], atom.x[n1]) : i1 \in SlotsOf(n1) }
      \cap { r \in { Sub3(atom.x[m], atom.x[n1]) : m \in SwAtoms } :
               r[1] * r[1] + r[2] * r[2] + r[3] * r[3] >= SwRc2 }

\* the displacements that enter the value v of a partial-force entry
OperandsOf(v) == { v.r12 } \cup { v.r13[k] : k \in DOMAIN v.r13 }

\* C12: after the partial-force kernel, a neighbour at a distance at or
\* beyond the cutoff enters no energy term of its atom and leaves its own
\* partial-force slot at zero, and as a second neighbour it enters the
\* partial force of no pair of that atom
C12_StrictCutoff ==
    swPc = "partial_done" =>
      \A n1 \in SwAtoms : (n1 >= sw2.N1 /\ n1 < sw2.N2) =>
        /\ \A k \in DOMAIN pe[n1] : \A j \in DOMAIN pe[n1][k].r :
              pe[n1][k].r[j] \notin FarNeighbors(n1)
        /\ \A i1 \in SlotsOf(n1) :
              LET idx == i1 * SwAtomN + n1
                  r12 == Sub3(atom.x[atom.NL[idx]], atom.x[n1])
              IN  IF r12 \in FarNeighbors(n1)
                  THEN f12[idx] = ZeroF12
                  ELSE /\ f12[idx].tag = "val"
                       /\ OperandsOf(f12[idx]) \cap FarNeighbors(n1) = {}

\* an atom of the range has one neighbour exactly at the cutoff and another
\* one strictly inside, and the kernel has stored its energy terms
C12_Witness ==
    /\ swPc = "partial_done"
    /\ \E n1 \in SwAtoms :
          /\ n1 >= sw2.N1 /\ n1 < sw2.N2
          /\ pe[n1] # << >>
          /\ \E i1, i2 \in SlotsOf(n1) :
                /\ Norm2(Sub3(atom.x[atom.NL[i1 * SwAtomN + n1]], atom.x[n1])) = SwRc2
                /\ Norm2(Sub3(atom.x[atom.NL[i2 * SwAtomN + n1]], atom.x[n1])) < SwRc2

-----------------------------------------------------------------------------
(*            P r o p e r t i e s :   V A C : : p r e p r o c e s s        *)

\* C13: once preprocess has returned or aborted, a request for both DOS and
\* SDC has ended in the fatal "simultaneously" error, and a request for
\* exactly one of them has not
C13_DosXorSdc ==
    vacPhase # "config" =>
      /\ (vacObj.compute_dos # 0 /\ vacObj.compute_sdc # 0) =>
            (vacPhase = "error" /\ vacLog.error = SimultaneousError)
      /\ ((vacObj.compute_dos # 0) # (vacObj.compute_sdc # 0)) =>
            vacLog.error # SimultaneousError

\* preprocess has aborted on a request for both
C13_Witness ==
    /\ vacPhase = "error"
    /\ vacObj.compute_dos # 0 /\ vacObj.compute_sdc # 0
    /\ vacLog.error = SimultaneousError

\* the sampling frequency 1000 / (time_step * sample_interval) is below
\* omega_max / pi, with pi rounded to four decimals
BelowNyquist ==
    1000 * 31416 <
      vacObj.omega_max * vacObj.time_step * vacObj.sample_interval * 10000

\* C14: with DOS requested, preprocess aborts whenever the sampling frequency
\* is below omega_max / pi, so process only ever runs with a sampling rate
\* that satisfies the condition; with SDC requested the test is not applied
C14_Nyquist ==
    /\ (vacPhase # "config" /\ vacObj.compute_dos # 0 /\ vacObj.compute_sdc = 0
          /\ BelowNyquist) =>
            (vacPhase = "error" /\ vacLog.error = NyquistError /\ vacLog.calls = 0)
    /\ (vacPhase = "running" /\ vacObj.compute_dos # 0) => ~BelowNyquist
    /\ (vacPhase # "config" /\ vacObj.compute_dos = 0 /\ vacObj.compute_sdc # 0) =>
            vacPhase # "error"

\* preprocess has aborted a DOS run whose sampling rate is too low
C14_Witness ==
    /\ vacPhase = "error"
    /\ vacObj.compute_dos # 0 /\ vacObj.compute_sdc = 0
    /\ BelowNyquist
    /\ vacLog.error = NyquistError

-----------------------------------------------------------------------------
(*     P r o p e r t i e s :   M O D A L _ A N A L Y S I S   s e t u p     *)

\* C17: when modal analysis is requested and eigenvector.out cannot be
\* opened, preprocess ends in the fatal error with no eigenvector value
\* stored, no binning table built and no process call made
C17_MissingEigenvectorFile ==
    (maPhase # "config" /\ ma.compute # 0 /\ ~ma.file_ok) =>
      /\ maPhase = "error"
      /\ ma.eig = << >>
      /\ ma.bin_count = << >> /\ ma.bin_sum = << >> /\ ma.num_bins = 0
      /\ maStep = 0 /\ maLog.calls = 0 /\ maFile = << >>

\* preprocess has aborted on the missing file, after setN
C17_Witness ==
    /\ maPhase = "error"
    /\ ma.compute # 0 /\ ~ma.file_ok
    /\ ma.num_modes > 0

-----------------------------------------------------------------------------
(*           P r o p e r t i e s :   V A C : : p o s t p r o c e s s       *)

\* the Hann weight (cos(pi * nc / Nc) + 1) / 2 of lag nc
HannWeight(nc) == RDiv(RAdd(CosPi(nc, vacObj.Nc), Rat(1)), Rat(2))

\* the non-zero lags carry twice their Hann weight
NonZeroLagsDoubled ==
    \A nc \in 1 .. vacObj.Nc - 1 : \A ax \in 1 .. 3 :
        vacOut.windowed[nc][ax] =
            RMul(vacOut.norm[nc][ax], RMul(Rat(2), HannWeight(nc)))

\* the DOS has num_dos_points points whose frequencies are spaced
\* omega_max / num_dos_points apart
FrequencyGrid ==
    /\ DOMAIN vacOut.dos = 0 .. vacObj.num_dos_points - 1
    /\ \A nw \in 1 .. vacObj.num_dos_points - 1 :
          vacOut.dos[nw].omega =
              RAdd(vacOut.dos[nw - 1].omega,
                   RDiv(Rat(vacObj.omega_max), Rat(vacObj.num_dos_points)))
    /\ \A nw \in DOMAIN vacOut.dos : \A nc \in 0 .. vacObj.Nc - 1 :
          vacOut.dos[nw].dos.terms[nc].v = vacOut.windowed[nc]

DosDone ==
    vacPhase = "done" /\ vacObj.compute_dos # 0 /\ vacObj.compute_sdc = 0

\* C18 as stated: the non-zero lags are doubled and the zero-lag term is
\* halved (one half times its Hann weight of 1) before the transform
C18_Original ==
    DosDone =>
      /\ NonZeroLagsDoubled
      /\ \A ax \in 1 .. 3 :
            vacOut.windowed[0][ax] =
                RMul(vacOut.norm[0][ax], RMul(<< 1, 2 >>, Rat(1)))
      /\ FrequencyGrid

\* C18, amended: the non-zero lags are multiplied by twice their Hann
\* weight and the zero-lag term by its Hann weight of 1 alone, so that it is
\* left as it is; the transform is evaluated at num_dos_points frequencies
\* spaced omega_max / num_dos_points apart
C18_HannWindow ==
    DosDone =>
      /\ NonZeroLagsDoubled
      /\ \A ax \in 1 .. 3 :
            vacOut.windowed[0][ax] = RMul(vacOut.norm[0][ax], Rat(1))
      /\ FrequencyGrid

\* a DOS run of at least two lags and two DOS points has finished with a
\* finite, non-zero normalised correlation at lag 1 that the window changed
C18_Witness ==
    /\ DosDone
    /\ vacObj.Nc >= 2 /\ vacObj.num_dos_points >= 2
    /\ vacObj.num_time_origins >= 1
    /\ IsFinite(vacOut.norm[1][1]) /\ vacOut.norm[1][1][1] # 0
    /\ vacOut.windowed[1][1] # vacOut.norm[1][1]
    /\ vacOut.windowed[0][1] = Rat(1)

SdcDone ==
    vacPhase = "done" /\ vacObj.compute_sdc # 0 /\ vacObj.compute_dos = 0

\* C19: in an SDC run every lag of the correlation is divided by
\* N * num_time_origins, sdc[0] is 0 and sdc[n] = sdc[n-1] +
\* (vac[n-1] + vac[n]) * dt / 2 over the normalised values; the unit
\* conversions touch only the values written to sdc.out
C19_SdcIntegral ==
    SdcDone =>
      LET D  == Rat(vacObj.N * vacObj.num_time_origins)
          dt == Rat(vacObj.time_step * vacObj.sample_interval)
      IN
      \A ax \in 1 .. 3 :
        /\ \A nc \in 0 .. vacObj.Nc - 1 :
              vacOut.norm[nc][ax] = RDiv(Rat(vacObj.vac[nc][ax]), D)
        /\ vacOut.sdc[0][ax] = Rat(0)
        /\ \A n \in 1 .. vacObj.Nc - 1 :
              vacOut.sdc[n][ax] =
                  RAdd(vacOut.sdc[n - 1][ax],
                       RDiv(RMul(RAdd(vacOut.norm[n - 1][ax], vacOut.norm[n][ax]),
                                 dt), Rat(2)))
        /\ \A nc \in 0 .. vacObj.Nc - 1 :
              /\ vacOut.sdc_file[nc][1 + ax] =
                    RMul(vacOut.norm[nc][ax],
                         << 1000000, TimeUnitConversion * TimeUnitConversion >>)
              /\ vacOut.sdc_file[nc][4 + ax] =
                    RMul(vacOut.sdc[nc][ax], << 1000, TimeUnitConversion >>)

\* an SDC run of at least two lags has finished after a full window, with a
\* finite non-zero running integral at lag 1 fed by two different values
C19_Witness ==
    /\ SdcDone
    /\ vacObj.Nc >= 2 /\ vacObj.num_time_origins >= 1
    /\ IsFinite(vacOut.sdc[1][1]) /\ vacOut.sdc[1][1][1] # 0
    /\ vacOut.norm[0][1] # vacOut.norm[1][1]

-----------------------------------------------------------------------------
(*            P r o p e r t i e s :   p e r - s t e p   h o o k s          *)

\* C20: a step on which the driver calls both process hooks leaves the VAC
\* object (ring buffer, correlation sums, time-origin counter) and its
\* output alone when both VAC flags are off or step+1 is not a multiple of
\* its sample_interval, and leaves the MODAL_ANALYSIS object and its output
\* file alone when compute is off or step+1 is not a multiple of its
\* sample_interval
C20_GatedCalls ==
    [][ (vacStep' = vacStep + 1 /\ maStep' = maStep + 1) =>
          /\ ((vacObj.compute_dos = 0 /\ vacObj.compute_sdc = 0)
                \/ (vacStep + 1) % vacObj.sample_interval # 0)
               => (vacObj' = vacObj /\ vacOut' = vacOut)
          /\ (ma.compute = 0 \/ (maStep + 1) % ma.sample_interval # 0)
               => (ma' = ma /\ maFile' = maFile) ]_vars

\* the last call of MODAL_ANALYSIS::process fell between two samples of a
\* run that has sampled before, and VAC::process has been called with both
\* of its flags off
C20_Witness ==
    /\ maPhase = "running" /\ ma.compute # 0
    /\ maLog.calls > 0 /\ ~maLog.sampled /\ maLog.step = maStep - 1
    /\ (maStep % ma.sample_interval) # 0
    /\ vacPhase = "running" /\ vacStep = maStep
    /\ vacObj.compute_dos = 0 /\ vacObj.compute_sdc = 0

-----------------------------------------------------------------------------
(*          P r o p e r t i e s :   S W 2   c o n s t r u c t i o n        *)

\* the rows a parameter file is made of: 8 numbers for one species, 3 rows
\* of 5 then 8 rows of 2 for two, 9 rows of 5 then 27 rows of 2 for three
ExpectedRows(nt) ==
    CASE nt = 1 -> << 8 >>
      [] nt = 2 -> << 5, 5, 5 >> \o [i \in 1 .. 8 |-> 2]
      [] nt = 3 -> [i \in 1 .. 9 |-> 5] \o [i \in 1 .. 27 |-> 2]

RECURSIVE SumOf(_)
SumOf(seq) == IF seq = << >> THEN 0 ELSE Head(seq) + SumOf(Tail(seq))

\* the position of the first value the file lacks (-1: the file is complete)
FirstDefect(file, nt) ==
    IF file.bad # -1 THEN file.bad
    ELSE IF Len(file.tokens) < SumOf(ExpectedRows(nt)) THEN Len(file.tokens)
    ELSE -1

\* the row that holds value number t
RowOf(rows, t) ==
    CHOOSE r \in 1 .. Len(rows) :
        /\ SumOf(SubSeq(rows, 1, r - 1)) <= t
        /\ t < SumOf(SubSeq(rows, 1, r))

\* C15: construction reads 8, 31 or 99 numbers row by row in the fixed
\* order, and stops with the parse error at the first row that yields
\* fewer values than it holds, with no partial-force buffer allocated
C15_ParameterReads ==
    swCtor.pc # "new" =>
      LET nt   == swCtor.num_of_types
          rows == ExpectedRows(nt)
          t    == FirstDefect(swCtor.file, nt)
      IN  IF t = -1
          THEN /\ swCtor.pc = "constructed"
               /\ swCtor.reads = rows
               /\ SumOf(swCtor.reads) = (CASE nt = 1 -> 8 [] nt = 2 -> 31 [] nt = 3 -> 99)
               /\ swCtor.allocated
          ELSE LET r == RowOf(rows, t)
               IN  /\ swCtor.pc = "error"
                   /\ ~swCtor.allocated
                   /\ Len(swCtor.reads) = r
                   /\ \A i \in 1 .. r - 1 : swCtor.reads[i] = rows[i]
                   /\ swCtor.reads[r] < rows[r]

\* a two-species file failed in its three-body rows, after a row that was
\* read in full
C15_Witness ==
    /\ swCtor.pc = "error"
    /\ swCtor.num_of_types = 2
    /\ Len(swCtor.reads) > 4
    /\ swCtor.reads[Len(swCtor.reads) - 1] = 2
    /\ ~swCtor.allocated

\* C16: after construction from a well-formed file every two-body table is
\* symmetric under swapping its two type indices
C16_Original ==
    swCtor.pc = "constructed" =>
      \A n1, n2 \in 0 .. swCtor.num_of_types - 1 :
        /\ swCtor.para.A[<< n1, n2 >>] = swCtor.para.A[<< n2, n1 >>]
        /\ swCtor.para.B[<< n1, n2 >>] = swCtor.para.B[<< n2, n1 >>]
        /\ swCtor.para.a[<< n1, n2 >>] = swCtor.para.a[<< n2, n1 >>]
        /\ swCtor.para.sigma[<< n1, n2 >>] = swCtor.para.sigma[<< n2, n1 >>]
        /\ swCtor.para.gamma[<< n1, n2 >>] = swCtor.para.gamma[<< n2, n1 >>]
        /\ swCtor.para.rc[<< n1, n2 >>] = swCtor.para.rc[<< n2, n1 >>]

-----------------------------------------------------------------------------
(*      P r o p e r t i e s :   m o d a l   h e a t   c u r r e n t        *)

\* the five heat-current components of participating atom neig and mode nm
\* for atom state k, when the virial component named "ab" of atom n is read
\* at index number["ab"] * N + n
HeatFromVirial(k, neig, nm, number) ==
    LET P  == ma.num_participating
        M  == ma.num_modes
        ng == neig + ma.N1
        xd == XdotOf(ma, k)
        rs == RSqrtMass2(MaMass[ng])
        vx == rs * ma.eig[neig + nm * 3 * P] * xd[nm]
        vy == rs * ma.eig[neig + (1 + nm * 3) * P] * xd[nm + M]
        vz == rs * ma.eig[neig + (2 + nm * 3) * P] * xd[nm + 2 * M]
        S(ab) == AtomVirial(k)[number[ab] * MaAtomN + ng]
    IN  << S("xx") * vx + S("xy") * vy,
           S("xz") * vz,
           S("yx") * vx + S("yy") * vy,
           S("yz") * vz,
           S("zx") * vx + S("zy") * vy + S("zz") * vz >>

\* jmn after a GKMA sampling call is made of the virial components read
\* with the numbering number
JmnReadsVirialAs(number) ==
    (maPhase = "running" /\ ma.method = GKMA_METHOD /\ maLog.calls > 0) =>
        \A neig \in 0 .. ma.num_participating - 1 :
        \A nm \in 0 .. ma.num_modes - 1 :
        \A h \in { HeatFromVirial(maLog.state, neig, nm, number) } :
        \A c \in 0 .. NUM_OF_HEAT_COMPONENTS - 1 :
            ma.jmn[neig + (nm + c * ma.num_modes) * ma.num_participating]
                = h[c + 1]

\* C21 as stated: the components are numbered xx, xy, xz, yx, yy, yz, zx,
\* zy, zz (0 to 8) and component c of atom n is read at index c * N + n
C21_Original ==
    JmnReadsVirialAs([xx |-> 0, xy |-> 1, xz |-> 2, yx |-> 3, yy |-> 4,
                      yz |-> 5, zx |-> 6, zy |-> 7, zz |-> 8])

\* C21, amended: the components are numbered xx, yy, zz, xy, xz, yz, yx,
\* zx, zy (0 to 8) and component c of atom n is read at index c * N + n
C21_VirialOrder ==
    JmnReadsVirialAs([xx |-> 0, yy |-> 1, zz |-> 2, xy |-> 3, xz |-> 4,
                      yz |-> 5, yx |-> 6, zx |-> 7, zy |-> 8])

\* a GKMA sampling call has stored a non-zero x-out and a non-zero y-in
\* term, which read off-diagonal components
C21_Witness ==
    /\ maPhase = "running" /\ ma.method = GKMA_METHOD /\ maLog.calls > 0
    /\ \E neig \in 0 .. ma.num_participating - 1, nm \in 0 .. ma.num_modes - 1 :
          /\ ma.jmn[neig + (nm + ma.num_modes) * ma.num_participating] # 0
          /\ ma.jmn[neig + (nm + 2 * ma.num_modes) * ma.num_participating] # 0

-----------------------------------------------------------------------------
(*      P r o p e r t i e s :   r i n g   b u f f e r   l a g s            *)

\* the correlation of the snapshots cur and old along axis ax
CrossCorrelation(o, cur, old, ax) ==
    SumTo([n \in 0 .. o.N - 1 |->
              (IF o.compute_dos # 0 THEN o.mass[n] ELSE 1)
              * cur[n][ax] * old[n][ax]], o.N)

\* C22: whenever the correlation kernel runs, the snapshot in slot b was
\* recorded exactly ((current_slot - b) mod Nc) sampling calls earlier, the
\* ring still holds it, and the lag bin of that number receives the
\* correlation of the current snapshot with it, wrap-arounds included.
C22_SlotAge ==
    vacLog.ran =>
        \A b \in 0 .. vacObj.Nc - 1 :
            LET w == vacLog.written[b]
                L == (vacLog.slot - b) % vacObj.Nc
            IN  /\ w.call > 0
                /\ vacLog.calls - w.call = L
                /\ \A n \in 0 .. vacObj.N - 1 :
                      vacObj.v[b * vacObj.N + n] = w.snap[n]
                /\ \A ax \in 1 .. 3 :
                      vacObj.vac[L][ax] = vacLog.vac_before[L][ax]
                          + CrossCorrelation(vacObj, vacLog.snapshot, w.snap, ax)

\* the ring has wrapped around twice and the kernel ran with the current
\* slot in the middle of the ring and a non-zero correlation at lag 2
C22_Witness ==
    /\ vacLog.ran
    /\ vacObj.Nc = 3
    /\ vacLog.calls >= 5
    /\ vacLog.slot = 1
    /\ \E ax \in 1 .. 3 : vacObj.vac[2][ax] # vacLog.vac_before[2][ax]

-----------------------------------------------------------------------------
(*      P r o p e r t i e s :   H N E M A   a v e r a g i n g              *)

\* C23: at every HNEMA output the number of samples accumulated in jmn since
\* the previous reset equals samples_per_output, the integer quotient of
\* output_interval by sample_interval, that the sum is divided by.
C23_SamplesPerOutput ==
    (maPhase = "running" /\ ma.method = HNEMA_METHOD /\ maLog.wrote) =>
        /\ ma.samples_per_output = ma.output_interval \div ma.sample_interval
        /\ maLog.averaged = ma.samples_per_output

-----------------------------------------------------------------------------
(*      P r o p e r t i e s :   m o d e - i n d e x   b i n n i n g        *)

\* the bins of mode-index binning that cover mode nm: bin b covers the modes
\* b * bin_size .. (b + 1) * bin_size - 1
BinsOfMode(nm) ==
    { b \in 0 .. ma.num_bins - 1 :
         b * ma.bin_size <= nm /\ nm <= (b + 1) * ma.bin_size - 1 }

\* C24: with mode-index binning every selected mode 0 .. num_modes - 1 is in
\* exactly one of the num_bins bins, so that after an output the binned
\* values of each heat-current component add up to the sum of jm over all
\* modes.
C24_ModeBinsPartition ==
    (maPhase = "running" /\ ma.f_flag = 0 /\ maLog.wrote) =>
        /\ \A nm \in 0 .. ma.num_modes - 1 : Cardinality(BinsOfMode(nm)) = 1
        /\ \A c \in 0 .. NUM_OF_HEAT_COMPONENTS - 1 :
              SumTo([b \in 0 .. ma.num_bins - 1 |->
                        ma.bin_out[b + c * ma.num_bins]], ma.num_bins)
                = SumTo([nm \in 0 .. ma.num_modes - 1 |->
                            ma.jm[nm + c * ma.num_modes]], ma.num_modes)

-----------------------------------------------------------------------------
(*      P r o p e r t i e s :   p a r t i c i p a t i n g   a t o m s      *)

\* the number of atoms whose type is in lo .. hi
AtomsOfTypes(lo, hi) ==
    Cardinality({ tn \in (0 .. Len(CpuTypeSize) - 1) \X (0 .. MaAtomN - 1) :
                    /\ lo <= tn[1] /\ tn[1] <= hi
                    /\ tn[2] < CpuTypeSize[tn[1] + 1] })

\* C25: after preprocess N1 is the number of atoms of the types below
\* atom_begin, N2 the number of atoms of the types up to and including
\* atom_end, and num_participating = N2 - N1 the number of atoms of the
\* types atom_begin .. atom_end.
C25_ParticipatingRange ==
    (maPhase = "running" /\ ma.compute # 0) =>
        /\ ma.N1 = AtomsOfTypes(0, ma.atom_begin - 1)
        /\ ma.N2 = AtomsOfTypes(0, ma.atom_end)
        /\ ma.num_participating = ma.N2 - ma.N1
        /\ ma.num_participating = AtomsOfTypes(ma.atom_begin, ma.atom_end)

-----------------------------------------------------------------------------
(*      P r o p e r t i e s :   t i m e   o r i g i n s                    *)

\* C26: when postprocess has run with DOS or SDC enabled, after preprocess
\* and any number of process steps, the time-origin count it normalised with
\* is at least 1 and no normalised correlation value is the result of a
\* division by zero.
C26_TimeOriginsPositive ==
    (vacPhase = "done" /\ (vacObj.compute_dos # 0 \/ vacObj.compute_sdc # 0)) =>
        /\ vacObj.num_time_origins >= 1
        /\ \A nc \in 0 .. vacObj.Nc - 1 : \A ax \in 1 .. 3 :
              IsFinite(vacOut.norm[nc][ax])

-----------------------------------------------------------------------------
(*      P r o p e r t i e s :   t r e e   r e d u c t i o n                *)

\* C27: whatever the segment length (0 and lengths above the block size
\* included) and however the threads interleave between the barriers, the
\* value the block writes is the sum of its segment, and no thread reads or
\* writes a shared element that another thread writes or reads without a
\* barrier between the two accesses.
C27_TreeReduction ==
    /\ ~red.race
    /\ red.out # << >> =>
          red.out[1] = SumTo([n \in 0 .. red.len - 1 |-> SegmentValue(n)],
                             red.len)

\* a block has finished on a segment longer than the block
C27_Witness ==
    /\ red.len > RedBlockDim
    /\ red.out # << >>
    /\ \A t \in RedThreads : red.pc[t] = "done"

\* ... and on an empty segment
C27_WitnessEmpty ==
    /\ red.pc # << >>
    /\ red.len = 0
    /\ red.out = << 0 >>

-----------------------------------------------------------------------------
(*      P r o p e r t i e s :   S W 2   p a i r s   a n d   h a l v e s    *)

\* the displacement of the neighbour in slot i of atom n1, and the slots of
\* atom n1 whose neighbour is strictly inside the cutoff
SlotDisplacement(n1, i) == Sub3(atom.x[atom.NL[i * SwAtomN + n1]], atom.x[n1])
InCutoffSlots(n1) ==
    { i \in SlotsOf(n1) :
         LET r == SlotDisplacement(n1, i)
         IN  r[1] * r[1] + r[2] * r[2] + r[3] * r[3] < SwRc2 }

\* how many energy terms of atom n1 are computed from the displacements r
TermCount(n1, r) == Cardinality({ k \in DOMAIN pe[n1] : pe[n1][k].r = r })

\* C28: after the partial-force kernel, for every atom of the range, every
\* neighbour j inside the cutoff has added one two-body energy term with
\* factor one half and its slot holds the two-body force with factor one
\* half; every ordered pair (j, k) of distinct neighbours inside the cutoff
\* has added one angular energy term with factor one half and entered the
\* partial force of slot j once; no pair with k = j and no other term was
\* added.
C28_OrderedPairs ==
    swPc = "partial_done" =>
      \A n1 \in SwAtoms : (n1 >= sw2.N1 /\ n1 < sw2.N2) =>
        LET in == InCutoffSlots(n1)
            D(i) == SlotDisplacement(n1, i)
        IN  /\ Len(pe[n1]) = Cardinality(in) * Cardinality(in)
            /\ \A k \in DOMAIN pe[n1] : pe[n1][k].w = << 1, 2 >>
            /\ \A j \in in :
                  /\ TermCount(n1, << D(j) >>) = 1
                  /\ TermCount(n1, << D(j), D(j) >>) = 0
                  /\ f12[j * SwAtomN + n1].tag = "val"
                  /\ f12[j * SwAtomN + n1].r12 = D(j)
                  /\ f12[j * SwAtomN + n1].two = << 1, 2 >>
                  /\ Len(f12[j * SwAtomN + n1].r13) = Cardinality(in) - 1
                  /\ \A k \in in \ { j } :
                        /\ TermCount(n1, << D(j), D(k) >>) = 1
                        /\ Cardinality({ q \in DOMAIN f12[j * SwAtomN + n1].r13 :
                                            f12[j * SwAtomN + n1].r13[q] = D(k) }) = 1

\* an atom of the range has two neighbours inside the cutoff, so that two
\* ordered pairs were visited, and another atom has a neighbour outside
C28_Witness ==
    /\ swPc = "partial_done"
    /\ \E n1 \in SwAtoms :
          /\ n1 >= sw2.N1 /\ n1 < sw2.N2
          /\ Cardinality(InCutoffSlots(n1)) = 2
          /\ Len(pe[n1]) = 4
    /\ \E n1 \in SwAtoms :
          /\ n1 >= sw2.N1 /\ n1 < sw2.N2
          /\ InCutoffSlots(n1) # SlotsOf(n1)

-----------------------------------------------------------------------------
(*      P r o p e r t i e s :   b u f f e r   l i f e t i m e              *)

\* buffer b was never allocated, or was allocated once and freed once, by
\* the function named releasedBy
Released(b, releasedBy) ==
    LET s == mem.buf[b]
    IN  /\ s.state # "live"
        /\ s.allocs <= 1
        /\ s.frees = s.allocs
        /\ s.allocs = 1 => s.by = releasedBy

\* C29 as stated: no buffer is ever freed unallocated, freed twice, replaced
\* while allocated or used while not allocated, and once postprocess has
\* returned every buffer that preprocess allocated has been freed exactly
\* once, by postprocess.
C29_Original ==
    /\ mem.faults = {}
    /\ vacPhase = "done" => \A b \in VacBuffers : Released(b, "postprocess")
    /\ maPhase = "done" => \A b \in MaBuffers : Released(b, "postprocess")

\* C29, amended: the same, except that the frequency array f of frequency
\* binning is freed by preprocess itself.
C29_BufferLifetime ==
    /\ mem.faults = {}
    /\ vacPhase = "done" => \A b \in VacBuffers : Released(b, "postprocess")
    /\ maPhase = "done" =>
          \A b \in MaBuffers :
              Released(b, IF b = "f" THEN "preprocess" ELSE "postprocess")

\* a frequency-binned HNEMA run with output has ended and all its buffers
\* are freed
C29_Witness ==
    /\ maPhase = "done" /\ ma.f_flag # 0 /\ ma.method = HNEMA_METHOD
    /\ maFile # << >>
    /\ \A b \in MaBuffers : mem.buf[b].state = "freed"

\* an SDC run that correlated has ended: the ring is freed and the mass
\* buffer was never allocated
C29_WitnessSdc ==
    /\ vacPhase = "done" /\ vacObj.compute_sdc # 0
    /\ vacObj.num_time_origins > 0
    /\ mem.buf["vx"].state = "freed" /\ mem.buf["mass"].state = "none"

-----------------------------------------------------------------------------
(*      P r o p e r t i e s :   i n i t i a l   v e l o c i t i e s        *)

\* all atoms lie on one line through atom 0 (a single atom included): the
\* moment-of-inertia tensor about the centre of mass is singular
AtomsOnALine ==
    \A i, j \in 0 .. vi.N - 1 :
        LET a == Sub3(vi.x[i], vi.x[0])
            b == Sub3(vi.x[j], vi.x[0])
        IN  /\ a[2] * b[3] - a[3] * b[2] = 0
            /\ a[3] * b[1] - a[1] * b[3] = 0
            /\ a[1] * b[2] - a[2] * b[1] = 0

\* C30: when the moment-of-inertia tensor is singular, velocity construction
\* does not stop: the determinant is zero, the division by it leaves no
\* finite component in the angular velocity, the removal of the angular
\* momentum and the rescaling go on with it and leave NaN in every velocity
\* component, and these velocities are what is copied to the device.
C30_SingularInertia ==
    (vi.pc \in { "cpu_done", "copied" } /\ vi.has_velocity_in_xyz = 0
        /\ AtomsOnALine) =>
        /\ vi.determinant = << 0, 1 >>
        /\ \A c \in 1 .. 3 : vi.w[c][2] = 0
        /\ \A n \in 0 .. vi.N - 1 : \A c \in 1 .. 3 :
              vi.cpu_v[n][c].v = << 0, 0 >>
        /\ vi.pc = "copied" => vi.v = vi.cpu_v

\* three atoms on a line: the velocities were built and handed over
C30_Witness ==
    /\ vi.pc = "copied"
    /\ vi.has_velocity_in_xyz = 0
    /\ vi.N = 3
    /\ AtomsOnALine
    /\ vi.v # << >>

\* atoms off one line: the tensor is regular and the velocities are finite
C30_Regular ==
    (vi.pc \in { "cpu_done", "copied" } /\ vi.has_velocity_in_xyz = 0
        /\ ~AtomsOnALine) =>
        /\ vi.determinant[2] # 0 /\ vi.determinant[1] # 0
        /\ \A c \in 1 .. 3 : vi.w[c][2] # 0

====
